---- MODULE Spec2Model ----
(***************************************************************************)
(* Forecasting orchestration engine of the DeepForecasting web service:    *)
(* NixtlaService (backend/app/services/forecaster.py) with the response    *)
(* schemas of backend/app/models.py.                                       *)
(*                                                                         *)
(* Numbers.  Python floats are modelled as fixed-point integers counting   *)
(* 1/Scale units (1.0 is Scale).  NaN stands for every non-finite float,   *)
(* None for Python's None in an optional numeric field.  A table (pandas   *)
(* DataFrame with columns ds, y) is a sequence of rows [ds, y]; a forecast *)
(* table is a record [cols, rows] whose rows are [ds, v, b], v the point   *)
(* forecast column and b the bound columns (<<side, level>> -> value).     *)
(* An optional table (None or a DataFrame) is <<>> or <<table>>.           *)
(***************************************************************************)
EXTENDS Integers, Sequences, FiniteSets, TLC

\* ------------------------------------------------------------------ bounds
MaxRows == 4          \* rows of an input table in the request machines
MaxConfigs == 2       \* configurations of a batch / backtest request
MaxHorizon == 2       \* configured horizon in the request machines
MaxWindows == 2       \* windows of a backtest request
MaxStep == 2          \* step_size of a backtest request
FracDen == 4          \* test_size_fraction ranges over k / FracDen
MaxTotal == 7         \* total rows given to the split / slice functions
MaxFnHorizon == 4     \* horizon given to the split / slice functions
MaxFnWindows == 3     \* windows given to the slice function
MaxFnStep == 4        \* step given to the slice function
MaxEntries == 3        \* leaderboard rows given to the ranking function
MaxRecords == 3       \* rows of an uploaded or inline record list
MaxSaved == 3         \* identifiers save_config may be given
MaxUploads == 2       \* uploads the store may hold
MaxCols == 3          \* columns of a table given to _resolve_model_column
MaxGap == 2           \* timestamps missing between two rows of an irregular table

\* ------------------------------------------------------- numeric encoding
Scale == 100
NaN == -99999999
None == -1
Inf == 2147483647
MaeOffset == 1000000

Min(a, b) == IF a <= b THEN a ELSE b
Max(a, b) == IF a >= b THEN a ELSE b
Abs(a) == IF a < 0 THEN 0 - a ELSE a

IsFinite(v) == v # NaN

\* np.ceil(total_rows * fraction) for fraction = num / FracDen
CeilFrac(total, num) == (total * num + FracDen - 1) \div FracDen

\* integer square root: the fixed-point value of np.sqrt
Isqrt(x) == CHOOSE r \in 0..(x + 1) : r * r <= x /\ (r + 1) * (r + 1) > x

RECURSIVE SumSeq(_)
SumSeq(s) == IF s = <<>> THEN 0 ELSE Head(s) + SumSeq(Tail(s))

\* np.mean of a non-empty list of fixed-point values
Mean(s) == SumSeq(s) \div Len(s)

RECURSIVE SelectSeqBy(_, _)
SelectSeqBy(s, keep) ==
    IF s = <<>> THEN <<>>
    ELSE IF keep[1] THEN <<Head(s)>> \o SelectSeqBy(Tail(s), Tail(keep))
         ELSE SelectSeqBy(Tail(s), Tail(keep))

Prefix(s, n) == SubSeq(s, 1, n)
Suffix(s, n) == SubSeq(s, Len(s) - n + 1, Len(s))

\* ------------------------------------------------------------ strategies
one_step == "one_step"
multi_step_recursive == "multi_step_recursive"

\* ------------------------------------------------------------- the split
DetermineTestSizeNoClamp(total_rows, config) ==
    IF total_rows <= 1 THEN 0
    ELSE IF config.test_size_fraction = None
         THEN Max(0, Min(config.horizon, total_rows - 1))
    ELSE IF config.test_size_fraction <= 0 THEN 0
    ELSE Max(1, CeilFrac(total_rows, config.test_size_fraction))

DetermineTestSize(total_rows, config) ==
    IF total_rows <= 1 THEN 0
    ELSE IF config.test_size_fraction = None
         THEN Max(0, Min(config.horizon, total_rows - 1))
    ELSE IF config.test_size_fraction <= 0 THEN 0
    ELSE Max(1, Min(CeilFrac(total_rows, config.test_size_fraction), total_rows - 1))

\* returns (train, holdout, holdout_actuals); the last two are optional
TrainTestSplit(tdf, holdout_size, raw_df) ==
    IF holdout_size <= 0 \/ Len(tdf) <= holdout_size
    THEN [train |-> tdf, holdout |-> <<>>, holdout_actuals |-> <<>>]
    ELSE [train |-> Prefix(tdf, Len(tdf) - holdout_size),
          holdout |-> <<Suffix(tdf, holdout_size)>>,
          holdout_actuals |-> <<Suffix(raw_df, holdout_size)>>]

\* --------------------------------------------------------- backtest slices
RECURSIVE SlicesFrom(_, _, _, _, _, _)
SlicesFrom(idx0, start, total_rows, horizon, nwindows, step) ==
    IF idx0 >= nwindows THEN <<>>
    ELSE LET test_start == start + idx0 * step
             test_end == Min(test_start + horizon, total_rows)
             train_end == test_start
             rest == SlicesFrom(idx0 + 1, start, total_rows, horizon, nwindows, step)
         IN IF train_end < 2 \/ test_start >= total_rows \/ test_end <= test_start
            THEN rest
            ELSE <<[window |-> idx0 + 1, train_end |-> train_end,
                    test_start |-> test_start, test_end |-> test_end]>> \o rest

BuildBacktestSlicesUnclampedStart(total_rows, horizon, nwindows, step) ==
    IF total_rows <= 2 \/ horizon <= 0 THEN <<>>
    ELSE SlicesFrom(0, total_rows - horizon * nwindows,
                    total_rows, horizon, nwindows, step)

BuildBacktestSlices(total_rows, horizon, nwindows, step) ==
    IF total_rows <= 2 \/ horizon <= 0 THEN <<>>
    ELSE SlicesFrom(0, Max(1, total_rows - horizon * nwindows),
                    total_rows, horizon, nwindows, step)

\* ----------------------------------------------------------------- metrics
NoMetrics == [mae |-> None, rmse |-> None, mape |-> None]

AbsErrors(y_true, y_pred, n) == [i \in 1..n |-> Abs(y_true[i] - y_pred[i])]

\* the metrics with RMSE left out, like MAPE, when every actual is zero
ComputeMetricsRmseLikeMape(y_true, y_pred) ==
    IF Len(y_true) = 0 \/ Len(y_pred) = 0 THEN NoMetrics
    ELSE LET n_match == Min(Len(y_true), Len(y_pred))
             errs == AbsErrors(y_true, y_pred, n_match)
             sq == [i \in 1..n_match |-> errs[i] * errs[i]]
             non_zero == [i \in 1..n_match |-> y_true[i] # 0]
             pct == [i \in 1..n_match |->
                        IF y_true[i] # 0 THEN (errs[i] * Scale) \div Abs(y_true[i]) ELSE 0]
             kept == SelectSeqBy(pct, non_zero)
         IN [mae |-> Mean(errs),
             rmse |-> IF kept # <<>> THEN Isqrt(Mean(sq)) ELSE None,
             mape |-> IF kept # <<>> THEN Mean(kept) * 100 ELSE None]

\* the metrics with MAPE taken over every row, a zero actual counting as 0
ComputeMetricsMapeOverAll(y_true, y_pred) ==
    IF Len(y_true) = 0 \/ Len(y_pred) = 0 THEN NoMetrics
    ELSE LET n_match == Min(Len(y_true), Len(y_pred))
             errs == AbsErrors(y_true, y_pred, n_match)
             sq == [i \in 1..n_match |-> errs[i] * errs[i]]
             pct == [i \in 1..n_match |->
                        IF y_true[i] # 0 THEN (errs[i] * Scale) \div Abs(y_true[i]) ELSE 0]
         IN [mae |-> Mean(errs),
             rmse |-> Isqrt(Mean(sq)),
             mape |-> Mean(pct) * 100]

ComputeMetrics(y_true, y_pred) ==
    IF Len(y_true) = 0 \/ Len(y_pred) = 0 THEN NoMetrics
    ELSE LET n_match == Min(Len(y_true), Len(y_pred))
             errs == AbsErrors(y_true, y_pred, n_match)
             sq == [i \in 1..n_match |-> errs[i] * errs[i]]
             non_zero == [i \in 1..n_match |-> y_true[i] # 0]
             pct == [i \in 1..n_match |->
                        IF y_true[i] # 0 THEN (errs[i] * Scale) \div Abs(y_true[i]) ELSE 0]
             kept == SelectSeqBy(pct, non_zero)
         IN [mae |-> Mean(errs),
             rmse |-> Isqrt(Mean(sq)),
             mape |-> IF kept # <<>> THEN Mean(kept) * 100 ELSE None]

Present(ms, f) == SelectSeqBy([i \in 1..Len(ms) |-> ms[i][f]],
                              [i \in 1..Len(ms) |-> ms[i][f] # None])

MeanOrNoneZeroFill(ms, f) ==
    IF Present(ms, f) = <<>> THEN None
    ELSE SumSeq(Present(ms, f)) \div Len(ms)

MeanOrNone(ms, f) ==
    IF Present(ms, f) = <<>> THEN None ELSE Mean(Present(ms, f))

AverageMetrics(ms) ==
    [mae |-> MeanOrNone(ms, "mae"),
     rmse |-> MeanOrNone(ms, "rmse"),
     mape |-> MeanOrNone(ms, "mape")]

\* ------------------------------------------------------------- leaderboard
Score(entry) ==
    IF entry.metrics.rmse # None THEN entry.metrics.rmse
    ELSE IF entry.metrics.mae # None THEN entry.metrics.mae + MaeOffset * Scale
    ELSE Inf

\* sorted(rows, key=score): stable insertion of each row in turn
RECURSIVE InsertByScore(_, _)
InsertByScoreUnstable(sorted, e) ==
    IF sorted = <<>> THEN <<e>>
    ELSE IF Score(Head(sorted)) < Score(e)
         THEN <<Head(sorted)>> \o InsertByScore(Tail(sorted), e)
         ELSE <<e>> \o sorted

InsertByScore(sorted, e) ==
    IF sorted = <<>> THEN <<e>>
    ELSE IF Score(Head(sorted)) <= Score(e)
         THEN <<Head(sorted)>> \o InsertByScore(Tail(sorted), e)
         ELSE <<e>> \o sorted

RECURSIVE SortedFrom(_, _)
SortedFrom(acc, rows) ==
    IF rows = <<>> THEN acc
    ELSE SortedFrom(InsertByScore(acc, Head(rows)), Tail(rows))

RankLeaderboard(rows) == SortedFrom(<<>>, rows)

\* ------------------------------------------------------------- log domain
\* np.log1p / np.expm1 on the fixed-point values the model uses, rounded to
\* the nearest unit: log1p(1.0) = 0.69, log1p(2.0) = 1.10, expm1(0.69) = 0.99
Log1p(x) ==
    CASE x = NaN -> NaN
      [] x = 0 -> 0
      [] x = Scale -> 69
      [] x = 2 * Scale -> 110
      [] OTHER -> NaN

Expm1(x) ==
    CASE x = NaN -> NaN
      [] x = 0 -> 0
      [] x = 69 -> 99
      [] x = 110 -> 200
      [] OTHER -> NaN

\* ----------------------------------------------------------- preprocessing
RECURSIVE InsertByDs(_, _)
InsertByDs(sorted, row) ==
    IF sorted = <<>> THEN <<row>>
    ELSE IF Head(sorted).ds <= row.ds
         THEN <<Head(sorted)>> \o InsertByDs(Tail(sorted), row)
         ELSE <<row>> \o sorted

RECURSIVE SortByDs(_)
SortByDs(t) ==
    IF t = <<>> THEN <<>>
    ELSE InsertByDs(SortByDs(Prefix(t, Len(t) - 1)), t[Len(t)])

PrepareDataframe(t) == SortByDs(t)

FilterDateRange(t, start, end) ==
    LET afterStart == IF start # None
                      THEN SelectSeqBy(t, [i \in 1..Len(t) |-> t[i].ds >= start])
                      ELSE t
    IN IF end # None
       THEN SelectSeqBy(afterStart, [i \in 1..Len(afterStart) |-> afterStart[i].ds <= end])
       ELSE afterStart

ApplyMissingStrategy(t, strategy) ==
    IF strategy = "drop"
    THEN SelectSeqBy(t, [i \in 1..Len(t) |-> t[i].y # NaN])
    ELSE t

\* _apply_filters: the filtered table, or <<>> standing for the raised error
ApplyFilters(t, config) ==
    LET filled == ApplyMissingStrategy(
                      FilterDateRange(t, config.date_start, config.date_end),
                      config.missing_strategy)
    IN [ok |-> Len(filled) >= 2, df |-> filled]

LogDomainOk(t) == \A i \in 1..Len(t) : ~(t[i].y <= 0 - Scale)

ApplyLogTransform(t) == [i \in 1..Len(t) |-> [ds |-> t[i].ds, y |-> Log1p(t[i].y)]]

\* ----------------------------------------------------------- forecast tables
Range(s) == {s[i] : i \in 1..Len(s)}

LoCol(lvl) == <<"lo", lvl>>
HiCol(lvl) == <<"hi", lvl>>

\* the columns _drop_non_finite_rows inspects besides the point column
CheckedColsPointOnly(fdf, levels) == {}

CheckedCols(fdf, levels) ==
    {c \in fdf.cols : c[2] \in Range(levels)}

RowFinite(row, checked) ==
    IsFinite(row.v) /\ \A c \in checked : IsFinite(row.b[c])

\* the cleaning without its two raises
DropNonFiniteRowsLenient(fdf, levels, required) ==
    [ok |-> TRUE,
     df |-> [cols |-> fdf.cols,
             rows |-> SelectSeqBy(fdf.rows,
                         [i \in 1..Len(fdf.rows) |->
                             RowFinite(fdf.rows[i], CheckedCols(fdf, levels))])]]

\* _drop_non_finite_rows: [ok, df]; ok = FALSE stands for the raised error
DropNonFiniteRows(fdf, levels, required) ==
    IF fdf.rows = <<>> THEN [ok |-> ~required, df |-> fdf]
    ELSE LET checked == CheckedCols(fdf, levels)
             mask == [i \in 1..Len(fdf.rows) |-> RowFinite(fdf.rows[i], checked)]
             cleaned == [cols |-> fdf.cols, rows |-> SelectSeqBy(fdf.rows, mask)]
         IN [ok |-> ~(cleaned.rows = <<>> /\ required), df |-> cleaned]

\* an inversion of the point column alone
InvertLogTransformPointOnly(fdf, levels) ==
    [cols |-> fdf.cols,
     rows |-> [i \in 1..Len(fdf.rows) |->
                 [fdf.rows[i] EXCEPT !.v = Expm1(fdf.rows[i].v)]]]

InvertLogTransformForecast(fdf, levels) ==
    [cols |-> fdf.cols,
     rows |-> [i \in 1..Len(fdf.rows) |->
                 [ds |-> fdf.rows[i].ds,
                  v |-> Expm1(fdf.rows[i].v),
                  b |-> [c \in fdf.cols |->
                           IF c[2] \in Range(levels)
                           THEN Expm1(fdf.rows[i].b[c])
                           ELSE fdf.rows[i].b[c]]]]]

\* an alignment that pairs rows for the metrics but leaves the timestamps
AlignWithActualsKeepingDs(fdf, holdout) ==
    IF holdout = <<>> \/ holdout[1] = <<>>
    THEN [aligned |-> fdf, metrics |-> <<>>]
    ELSE LET h == holdout[1]
             n_match == Min(Len(fdf.rows), Len(h))
         IN [aligned |-> fdf,
             metrics |-> <<ComputeMetrics(
                              [i \in 1..n_match |-> h[i].y],
                              [i \in 1..n_match |-> fdf.rows[i].v])>>]

\* _align_with_actuals: [aligned, metrics]; metrics None is <<>>
AlignWithActuals(fdf, holdout) ==
    IF holdout = <<>> \/ holdout[1] = <<>>
    THEN [aligned |-> fdf, metrics |-> <<>>]
    ELSE LET h == holdout[1]
             n_match == Min(Len(fdf.rows), Len(h))
             aligned == [cols |-> fdf.cols,
                         rows |-> [i \in 1..Len(fdf.rows) |->
                                     IF i <= n_match
                                     THEN [fdf.rows[i] EXCEPT !.ds = h[i].ds]
                                     ELSE fdf.rows[i]]]
         IN [aligned |-> aligned,
             metrics |-> <<ComputeMetrics(
                              [i \in 1..n_match |-> h[i].y],
                              [i \in 1..n_match |-> aligned.rows[i].v])>>]

RECURSIVE BuildIntervals(_, _)
BuildIntervals(fdf, levels) ==
    IF levels = <<>> THEN <<>>
    ELSE LET lvl == Head(levels)
             rest == BuildIntervals(fdf, Tail(levels))
         IN IF LoCol(lvl) \in fdf.cols /\ HiCol(lvl) \in fdf.cols
            THEN <<[level |-> lvl,
                    lower |-> [i \in 1..Len(fdf.rows) |-> fdf.rows[i].b[LoCol(lvl)]],
                    upper |-> [i \in 1..Len(fdf.rows) |-> fdf.rows[i].b[HiCol(lvl)]]]>>
                 \o rest
            ELSE rest

Timestamps(fdf) == [i \in 1..Len(fdf.rows) |-> fdf.rows[i].ds]
PointValues(fdf) == [i \in 1..Len(fdf.rows) |-> fdf.rows[i].v]

\* ForecastSeries.validate_lengths / ForecastResponse.validate_lengths
ValidateLengths(timestamps, forecast, bounds) ==
    /\ Len(forecast) = Len(timestamps)
    /\ \A k \in 1..Len(bounds) :
          Len(bounds[k].lower) = Len(timestamps) /\ Len(bounds[k].upper) = Len(timestamps)

\* backtest, lines 190-192: the tables of one window
WindowTrainLeaky(t, sl) == Prefix(t, sl.test_end)

WindowTrain(t, sl) == Prefix(t, sl.train_end)

WindowHoldout(t, sl) == SubSeq(t, sl.test_start + 1, sl.test_end)

\* LeaderboardEntry built at lines 148-155 and 232-239
ModelLabel(config) == <<config.module_type, config.model_type>>

Entry(config, metrics) ==
    [model_label |-> ModelLabel(config), module_type |-> config.module_type,
     metrics |-> metrics, config |-> config]

\* ------------------------------------------------------------------- state
VARIABLES
    op,               \* operation the request asks for
    pc,               \* position of the request inside the service
    data,             \* the caller's table
    configs,          \* the submitted configurations, in submission order
    windows,          \* BacktestRequest.windows
    step_size,        \* BacktestRequest.step_size
    ci,               \* index of the configuration being processed
    config_obj,       \* the configuration being processed
    run_config,       \* the configuration handed to the dispatcher
    df,               \* prepared and filtered table
    model_df,         \* df, log-transformed when log_transform is set
    train_df,
    holdout_df,       \* optional table
    holdout_actuals,  \* optional table
    rolling_train,    \* _one_step_forecast locals
    idx,
    predictions,
    interval_buffers,
    forecast_df,      \* dispatcher result
    fitted_df,        \* optional forecast table
    calls,            \* every dispatcher invocation: [train, horizon]
    splits,           \* backtest locals
    wi,
    window_results,
    metrics_buffer,
    results,          \* per-configuration results, in completion order
    leaderboard,      \* unranked rows, then the ranked leaderboard
    response,         \* optional ForecastResponse of the last forecast
    fn_args,          \* argument and result of a helper called on its own
    fn_ret,
    payload,          \* data source of an endpoint request: [upload_id, records]
    upload_store,     \* the in-memory upload store: identifier -> table
    http,             \* optional error response of the endpoint: [status, detail]
    saved_configs,    \* the in-memory saved configurations, in insertion order
    config_file,      \* config_store.json: [state, items]
    issued,           \* how many identifiers uuid4 has handed to save_config
    store_reply,      \* optional reply of the last /configs request
    heap,             \* the DataFrame objects: reference -> table
    refs              \* the references held by data, base_df, df and model_df

storeVars == <<saved_configs, config_file, issued, store_reply>>
objVars == <<heap, refs>>
reqVars == <<op, data, configs, windows, step_size, payload, upload_store, http,
             storeVars, objVars>>
prepVars == <<config_obj, run_config, df, model_df, train_df, holdout_df, holdout_actuals>>
stepVars == <<rolling_train, idx, predictions, interval_buffers>>
dispVars == <<forecast_df, fitted_df>>
btVars == <<splits, wi, window_results, metrics_buffer>>
outVars == <<results, leaderboard, response>>
fnVars == <<fn_args, fn_ret>>

vars == <<op, pc, data, configs, windows, step_size, ci, config_obj, run_config,
          df, model_df, train_df, holdout_df, holdout_actuals,
          rolling_train, idx, predictions, interval_buffers,
          forecast_df, fitted_df, calls, splits, wi, window_results,
          metrics_buffer, results, leaderboard, response, fn_args, fn_ret,
          payload, upload_store, http,
          saved_configs, config_file, issued, store_reply, heap, refs>>

\* ------------------------------------------------------------------ inputs
YVals == {0, Scale}

\* validated tables: ds strictly increasing, at least 2 rows, finite values;
\* the last two rows range over YVals, the rows before them carry 1.0
TablesOfLen(n) ==
    {[i \in 1..n |-> [ds |-> i, y |-> IF i <= n - 2 THEN Scale ELSE ys[i - (n - 2)]]] :
        ys \in [1..2 -> YVals]}
Tables == UNION {TablesOfLen(n) : n \in 2..MaxRows}

\* the tables of a multi-configuration request vary in their last row only
MultiTables == {t \in Tables : t[Len(t) - 1].y = Scale}

Fractions == {None} \cup 0..(FracDen - 1)

MkConfig(st, h, fr, lg, start) ==
    [module_type |-> "StatsForecast", model_type |-> "naive",
     strategy |-> st, horizon |-> h, test_size_fraction |-> fr, level |-> <<80>>,
     log_transform |-> lg, missing_strategy |-> "none",
     date_start |-> start, date_end |-> None]

\* the statistical models that average a trailing window
WindowModels == {"window_average", "seasonal_window_average"}

ForecastConfigs ==
    {MkConfig(st, h, fr, FALSE, None) :
        st \in {one_step, multi_step_recursive}, h \in 1..MaxHorizon, fr \in Fractions}
    \cup {MkConfig(st, MaxHorizon, None, TRUE, None) : st \in {one_step, multi_step_recursive}}
    \cup {MkConfig(multi_step_recursive, 1, None, FALSE, start) : start \in {2, MaxRows}}
    \cup {[MkConfig(multi_step_recursive, MaxHorizon, None, FALSE, None)
               EXCEPT !.model_type = m] : m \in WindowModels}

NoFrame == [cols |-> {}, rows |-> <<>>]
NoConfig == MkConfig(multi_step_recursive, 1, None, FALSE, None)

LocalsInit ==
    /\ config_obj = NoConfig
    /\ run_config = NoConfig
    /\ df = <<>>
    /\ model_df = <<>>
    /\ train_df = <<>>
    /\ holdout_df = <<>>
    /\ holdout_actuals = <<>>
    /\ rolling_train = <<>>
    /\ idx = 0
    /\ predictions = <<>>
    /\ interval_buffers = <<>>
    /\ forecast_df = NoFrame
    /\ fitted_df = <<>>
    /\ calls = <<>>
    /\ splits = <<>>
    /\ wi = 0
    /\ window_results = <<>>
    /\ metrics_buffer = <<>>
    /\ results = <<>>
    /\ leaderboard = <<>>
    /\ response = <<>>

NoCall ==
    /\ fn_args = <<>>
    /\ fn_ret = <<>>

\* a service call made directly, outside any endpoint
NoPayload == [upload_id |-> <<>>, records |-> <<>>]

MissingFile == [state |-> "missing", items |-> <<>>]

\* no /configs request is made and no configuration file exists
NoSavedConfigs ==
    /\ saved_configs = <<>>
    /\ config_file = MissingFile
    /\ issued = 0
    /\ store_reply = <<>>

NoUploads ==
    /\ payload = NoPayload
    /\ upload_store = <<>>
    /\ http = <<>>

NoRefs == [caller |-> 0, base |-> 0, df |-> 0, model |-> 0]

\* object identity is not tracked
NoObjects ==
    /\ heap = <<>>
    /\ refs = NoRefs

NoEndpoint ==
    /\ NoUploads
    /\ NoSavedConfigs
    /\ NoObjects

NoRequest ==
    /\ NoEndpoint
    /\ data = <<>>
    /\ configs = <<>>
    /\ windows = 0
    /\ step_size = 0
    /\ ci = 0

\* ------------------------------------------------------- model dispatcher
\* _run_forecast is an opaque backend: it raises, or returns a forecast
\* table of at most `horizon` rows after the end of its training table, with
\* or without bound columns, any cell possibly non-finite, and an optional
\* in-sample fitted table.
DsShifts == {0, 1}

\* a confidence level no configuration requests
OtherLevel == 95

BackendVals(config) ==
    IF config.log_transform THEN {Log1p(0), Log1p(Scale), NaN} ELSE {0, Scale, NaN}

AllBoundCols(levels) == {LoCol(l) : l \in Range(levels)} \cup {HiCol(l) : l \in Range(levels)}

LastDs(t) == IF t = <<>> THEN 0 ELSE t[Len(t)].ds

\* the value the backend puts in a bound column: 0 below, log1p(1.0) above
BoundVal(c) == IF c[1] = "lo" THEN 0 ELSE Log1p(Scale)

MkFrame(train, vals, cols, nanrow, shift) ==
    [cols |-> cols,
     rows |-> [i \in 1..Len(vals) |->
                 [ds |-> LastDs(train) + shift + i,
                  v |-> vals[i],
                  b |-> [c \in cols |-> IF i = nanrow /\ c[1] = "lo" THEN NaN
                                         ELSE BoundVal(c)]]]]

BackendPoints(config) ==
    UNION {[1..n -> BackendVals(config)] : n \in 0..config.horizon}

BackendFrames(train, config, rich) ==
    IF rich
    THEN {MkFrame(train, vals, {}, 0, shift) :
            vals \in BackendPoints(config), shift \in DsShifts}
         \cup {MkFrame(train, vals, AllBoundCols(config.level), nanrow, 0) :
            vals \in BackendPoints(config), nanrow \in 0..1}
         \cup {MkFrame(train, vals, {LoCol(l) : l \in Range(config.level)}, 0, 0) :
            vals \in BackendPoints(config)}
         \cup {MkFrame(train, vals, AllBoundCols(<<OtherLevel>>), 1, 0) :
            vals \in BackendPoints(config)}
    ELSE {MkFrame(train, [i \in 1..config.horizon |-> v], {}, 0, 0) :
            v \in BackendVals(config) \cap {0, NaN}}

FittedChoices(train, cols, rich) ==
    IF rich
    THEN {<<>>} \cup
         {<<[cols |-> cols,
             rows |-> [i \in 1..Len(train) |->
                         [ds |-> train[i].ds,
                          v |-> IF i = nanrow THEN NaN ELSE train[i].y,
                          b |-> [c \in cols |-> BoundVal(c)]]]]>> : nanrow \in 0..1}
    ELSE {<<>>}

\* the backend is explored in full for a single forecast; for a
\* multi-configuration request it raises, or returns a full table whose
\* predictions are all 0 or all non-finite
Rich == op = "forecast"

\* -------------------------------------------------------------- forecast()
\* lines 65-84: validation, preparation, filtering, holdout size, split
Prepare ==
    /\ pc = "prepare"
    /\ op \in {"forecast", "batch"}
    /\ LET cfg == configs[ci]
           filt == ApplyFilters(PrepareDataframe(data), cfg)
           d == filt.df
           holdout_size == DetermineTestSize(Len(d), cfg)
           rc == IF cfg.strategy = one_step THEN [cfg EXCEPT !.horizon = 1] ELSE cfg
           m == IF cfg.log_transform THEN ApplyLogTransform(d) ELSE d
           sp == TrainTestSplit(m, holdout_size, d)
       IN IF ~filt.ok \/ (cfg.log_transform /\ ~LogDomainOk(d))
          THEN /\ pc' = "error"
               /\ UNCHANGED prepVars
          ELSE /\ pc' = "dispatch"
               /\ config_obj' = cfg
               /\ run_config' = rc
               /\ df' = d
               /\ model_df' = m
               /\ train_df' = sp.train
               /\ holdout_df' = sp.holdout
               /\ holdout_actuals' = sp.holdout_actuals
    /\ UNCHANGED <<reqVars, ci, stepVars, dispVars, calls, btVars, outVars, fnVars>>

\* line 86: the one-step loop runs only when a holdout exists
UsesOneStep == run_config.strategy = one_step /\ holdout_df # <<>>

\* line 90 / line 201: one direct dispatcher call
RunForecast ==
    /\ pc = "dispatch"
    /\ ~UsesOneStep
    /\ calls' = Append(calls, [train |-> train_df, horizon |-> run_config.horizon])
    /\ \/ /\ pc' = "error"
          /\ UNCHANGED dispVars
       \/ \E f \in BackendFrames(train_df, run_config, Rich) :
          \E ft \in FittedChoices(train_df, f.cols, Rich) :
             /\ forecast_df' = f
             /\ fitted_df' = ft
             /\ pc' = "assemble"
    /\ UNCHANGED <<reqVars, ci, prepVars, stepVars, btVars, outVars, fnVars>>

\* _one_step_forecast, lines 309-319
OneStepStart ==
    /\ pc = "dispatch"
    /\ UsesOneStep
    /\ IF holdout_df[1] = <<>>
       THEN /\ pc' = "error"
            /\ UNCHANGED stepVars
       ELSE /\ pc' = "onestep"
            /\ rolling_train' = train_df
            /\ idx' = 0
            /\ predictions' = <<>>
            /\ interval_buffers' =
                  [l \in Range(run_config.level) |-> [lower |-> <<>>, upper |-> <<>>]]
    /\ UNCHANGED <<reqVars, ci, prepVars, dispVars, calls, btVars, outVars, fnVars>>

\* the row the loop appends to rolling_train after step idx (0-based)
NextActualSkipping(h, i) == h[Min(i + 2, Len(h))]

NextActual(h, i) == h[i + 1]

\* _one_step_forecast, lines 321-341: one iteration of the loop
OneStepIter ==
    /\ pc = "onestep"
    /\ idx < Len(holdout_df[1])
    /\ LET step_config == [run_config EXCEPT !.horizon = 1]
       IN /\ calls' = Append(calls, [train |-> rolling_train,
                                     horizon |-> step_config.horizon])
          /\ \/ /\ pc' = "error"
                /\ UNCHANGED stepVars
             \/ \E slice \in BackendFrames(rolling_train, step_config, Rich) :
                   IF slice.rows = <<>>
                   THEN /\ pc' = "error"
                        /\ UNCHANGED stepVars
                   ELSE /\ pc' = "onestep"
                        /\ predictions' = Append(predictions, slice.rows[1].v)
                        /\ interval_buffers' =
                              [l \in DOMAIN interval_buffers |->
                                 [lower |-> IF LoCol(l) \in slice.cols
                                            THEN Append(interval_buffers[l].lower,
                                                        slice.rows[1].b[LoCol(l)])
                                            ELSE interval_buffers[l].lower,
                                  upper |-> IF HiCol(l) \in slice.cols
                                            THEN Append(interval_buffers[l].upper,
                                                        slice.rows[1].b[HiCol(l)])
                                            ELSE interval_buffers[l].upper]]
                        /\ rolling_train' =
                              Append(rolling_train, NextActual(holdout_df[1], idx))
                        /\ idx' = idx + 1
    /\ UNCHANGED <<reqVars, ci, prepVars, dispVars, btVars, outVars, fnVars>>

\* _one_step_forecast, lines 343-353: the table built from the buffers;
\* pandas raises when the columns differ in length
OneStepFinish ==
    /\ pc = "onestep"
    /\ idx = Len(holdout_df[1])
    /\ LET h == holdout_df[1]
           full == {l \in DOMAIN interval_buffers :
                      interval_buffers[l].lower # <<>> /\ interval_buffers[l].upper # <<>>}
           sameLength == \A l \in full :
                            /\ Len(interval_buffers[l].lower) = Len(h)
                            /\ Len(interval_buffers[l].upper) = Len(h)
           cols == {LoCol(l) : l \in full} \cup {HiCol(l) : l \in full}
       IN IF Len(predictions) # Len(h) \/ ~sameLength
          THEN /\ pc' = "error"
               /\ UNCHANGED dispVars
          ELSE /\ pc' = "assemble"
               /\ forecast_df' =
                     [cols |-> cols,
                      rows |-> [i \in 1..Len(h) |->
                                  [ds |-> h[i].ds,
                                   v |-> predictions[i],
                                   b |-> [c \in cols |->
                                            IF c[1] = "lo"
                                            THEN interval_buffers[c[2]].lower[i]
                                            ELSE interval_buffers[c[2]].upper[i]]]]]
               /\ fitted_df' = <<>>
    /\ UNCHANGED <<reqVars, ci, prepVars, stepVars, calls, btVars, outVars, fnVars>>

\* lines 91-133: cleaning, log inversion, alignment, intervals, response
Series(fdf, levels) ==
    [timestamps |-> Timestamps(fdf), forecast |-> PointValues(fdf),
     bounds |-> BuildIntervals(fdf, levels)]

Assemble ==
    /\ pc = "assemble"
    /\ op \in {"forecast", "batch"}
    /\ LET levels == run_config.level
           dropped == DropNonFiniteRows(forecast_df, levels, TRUE)
           fit1 == IF fitted_df # <<>>
                   THEN <<DropNonFiniteRows(fitted_df[1], levels, FALSE).df>>
                   ELSE <<>>
           fcst2 == IF run_config.log_transform
                    THEN InvertLogTransformForecast(dropped.df, levels)
                    ELSE dropped.df
           fit2 == IF run_config.log_transform /\ fit1 # <<>>
                   THEN <<InvertLogTransformForecast(fit1[1], levels)>>
                   ELSE fit1
           al == AlignWithActuals(fcst2, holdout_actuals)
           main == Series(al.aligned, levels)
           fitted_segment == IF fit2 # <<>> THEN <<Series(fit2[1], levels)>> ELSE <<>>
           valid == /\ ValidateLengths(main.timestamps, main.forecast, main.bounds)
                    /\ fitted_segment # <<>> =>
                          ValidateLengths(fitted_segment[1].timestamps,
                                          fitted_segment[1].forecast,
                                          fitted_segment[1].bounds)
       IN IF ~dropped.ok \/ ~valid
          THEN /\ pc' = "error"
               /\ UNCHANGED response
          ELSE /\ pc' = IF op = "forecast" THEN "done" ELSE "collect"
               /\ response' = <<[timestamps |-> main.timestamps,
                                 forecast |-> main.forecast,
                                 bounds |-> main.bounds,
                                 metrics |-> IF al.metrics = <<>> THEN NoMetrics
                                             ELSE al.metrics[1],
                                 config |-> config_obj,
                                 fitted |-> fitted_segment]>>
    /\ UNCHANGED <<reqVars, ci, prepVars, stepVars, dispVars, calls, btVars,
                   results, leaderboard, fnVars>>

\* a single forecast request
Init ==
    /\ op = "forecast"
    /\ pc = "prepare"
    /\ data \in Tables
    /\ configs \in {<<c>> : c \in ForecastConfigs}
    /\ windows = 0
    /\ step_size = 0
    /\ ci = 1
    /\ NoEndpoint
    /\ LocalsInit
    /\ NoCall

Next ==
    \/ Prepare
    \/ RunForecast
    \/ OneStepStart
    \/ OneStepIter
    \/ OneStepFinish
    \/ Assemble

Spec == Init /\ [][Next]_vars

\* ------------------------------------------- forecast() on irregular series
\* validated tables whose timestamps are strictly increasing, regular or
\* with MaxGap timestamps missing after row k; every value is 1.0
GapTables ==
    {[i \in 1..n |-> [ds |-> IF i > k THEN i + gap ELSE i, y |-> Scale]] :
        n \in 2..MaxRows, k \in 1..MaxRows, gap \in {0, MaxGap}}

InitGaps ==
    /\ op = "forecast"
    /\ pc = "prepare"
    /\ data \in GapTables
    /\ configs \in {<<c>> : c \in ForecastConfigs}
    /\ windows = 0
    /\ step_size = 0
    /\ ci = 1
    /\ NoEndpoint
    /\ LocalsInit
    /\ NoCall

SpecGaps == InitGaps /\ [][Next]_vars

\* ---------------------------------------------------------- forecast_many()
ResetLocals ==
    /\ config_obj' = NoConfig
    /\ run_config' = NoConfig
    /\ df' = <<>>
    /\ model_df' = <<>>
    /\ train_df' = <<>>
    /\ holdout_df' = <<>>
    /\ holdout_actuals' = <<>>
    /\ rolling_train' = <<>>
    /\ idx' = 0
    /\ predictions' = <<>>
    /\ interval_buffers' = <<>>
    /\ forecast_df' = NoFrame
    /\ fitted_df' = <<>>

\* lines 146-155: the response of configuration ci joins the results
BatchCollect ==
    /\ pc = "collect"
    /\ op = "batch"
    /\ results' = Append(results, response[1])
    /\ leaderboard' = Append(leaderboard, Entry(response[1].config, response[1].metrics))
    /\ response' = <<>>
    /\ IF ci < Len(configs)
       THEN ci' = ci + 1 /\ pc' = "prepare"
       ELSE ci' = ci /\ pc' = "rank"
    /\ ResetLocals
    /\ UNCHANGED <<reqVars, calls, btVars, fnVars>>

\* lines 157-158 and 241-242: the ranked leaderboard is returned
RankAndReturn ==
    /\ pc = "rank"
    /\ leaderboard' = RankLeaderboard(leaderboard)
    /\ pc' = "done"
    /\ UNCHANGED <<reqVars, ci, prepVars, stepVars, dispVars, calls, btVars,
                   results, response, fnVars>>

\* ---------------------------------------------------------------- backtest()
\* lines 175-187: per configuration filtering, log transform and slices
BacktestConfig ==
    /\ pc = "bt_config"
    /\ op = "backtest"
    /\ LET cfg == configs[ci]
           filt == ApplyFilters(PrepareDataframe(data), cfg)
           d == filt.df
           m == IF cfg.log_transform THEN ApplyLogTransform(d) ELSE d
       IN IF ~filt.ok \/ (cfg.log_transform /\ ~LogDomainOk(d))
          THEN /\ pc' = "error"
               /\ UNCHANGED <<config_obj, df, model_df, btVars>>
          ELSE /\ pc' = "bt_window"
               /\ config_obj' = cfg
               /\ df' = d
               /\ model_df' = m
               /\ splits' = BuildBacktestSlices(Len(m), cfg.horizon, windows, step_size)
               /\ wi' = 0
               /\ window_results' = <<>>
               /\ metrics_buffer' = <<>>
    /\ UNCHANGED <<reqVars, ci, run_config, train_df, holdout_df, holdout_actuals,
                   stepVars, dispVars, calls, outVars, fnVars>>

\* lines 189-196: the tables and the run configuration of the next window
WindowStart ==
    /\ pc = "bt_window"
    /\ wi < Len(splits)
    /\ LET sl == splits[wi + 1]
           train == WindowTrain(model_df, sl)
           holdout == WindowHoldout(model_df, sl)
       IN IF holdout = <<>> \/ Len(train) < 2
          THEN /\ pc' = "bt_window"
               /\ UNCHANGED <<run_config, train_df, holdout_df, holdout_actuals>>
          ELSE /\ pc' = "dispatch"
               /\ train_df' = train
               /\ holdout_df' = <<holdout>>
               /\ holdout_actuals' = <<WindowHoldout(df, sl)>>
               /\ run_config' = [config_obj EXCEPT !.horizon = Len(holdout)]
    /\ wi' = wi + 1
    /\ UNCHANGED <<reqVars, ci, config_obj, df, model_df, stepVars, dispVars, calls,
                   splits, window_results, metrics_buffer, outVars, fnVars>>

\* lines 204-227: cleaning, log inversion, alignment and the window result
WindowAssemble ==
    /\ pc = "assemble"
    /\ op = "backtest"
    /\ LET levels == run_config.level
           dropped == DropNonFiniteRows(forecast_df, levels, TRUE)
           fcst2 == IF run_config.log_transform
                    THEN InvertLogTransformForecast(dropped.df, levels)
                    ELSE dropped.df
           al == AlignWithActuals(fcst2, holdout_actuals)
           metrics == IF al.metrics = <<>> THEN NoMetrics ELSE al.metrics[1]
       IN IF ~dropped.ok
          THEN /\ pc' = "error"
               /\ UNCHANGED <<window_results, metrics_buffer, run_config, train_df,
                              holdout_df, holdout_actuals, stepVars, dispVars>>
          ELSE /\ pc' = "bt_window"
               /\ window_results' =
                     Append(window_results,
                            [window |-> splits[wi].window,
                             train_size |-> Len(train_df),
                             test_size |-> Len(holdout_df[1]),
                             metrics |-> metrics])
               /\ metrics_buffer' = Append(metrics_buffer, metrics)
               /\ run_config' = NoConfig
               /\ train_df' = <<>>
               /\ holdout_df' = <<>>
               /\ holdout_actuals' = <<>>
               /\ rolling_train' = <<>>
               /\ idx' = 0
               /\ predictions' = <<>>
               /\ interval_buffers' = <<>>
               /\ forecast_df' = NoFrame
               /\ fitted_df' = <<>>
    /\ UNCHANGED <<reqVars, ci, config_obj, df, model_df, calls, splits, wi,
                   outVars, fnVars>>

\* lines 229-239: the aggregate, the model result and the leaderboard row
ConfigFinish ==
    /\ pc = "bt_window"
    /\ wi = Len(splits)
    /\ LET aggregate == AverageMetrics(metrics_buffer)
       IN /\ results' = Append(results, [config |-> config_obj,
                                         aggregate |-> aggregate,
                                         windows |-> window_results])
          /\ leaderboard' = Append(leaderboard, Entry(config_obj, aggregate))
    /\ IF ci < Len(configs)
       THEN ci' = ci + 1 /\ pc' = "bt_config"
       ELSE ci' = ci /\ pc' = "rank"
    /\ ResetLocals
    /\ splits' = <<>>
    /\ wi' = 0
    /\ window_results' = <<>>
    /\ metrics_buffer' = <<>>
    /\ UNCHANGED <<reqVars, calls, response, fnVars>>

\* a batch forecast or a backtest over one or more configurations
BatchConfigs ==
    {MkConfig(st, h, fr, FALSE, None) :
        st \in {one_step, multi_step_recursive}, h \in {1, MaxHorizon}, fr \in {None, 0}}

BacktestConfigs ==
    {MkConfig(st, h, None, FALSE, None) :
        st \in {one_step, multi_step_recursive}, h \in {1, MaxHorizon}}

SeqsOf(S) == UNION {[1..n -> S] : n \in 1..MaxConfigs}

InitMulti ==
    /\ data \in MultiTables
    /\ \/ /\ op = "batch"
          /\ pc = "prepare"
          /\ configs \in SeqsOf(BatchConfigs)
          /\ windows = 0
          /\ step_size = 0
       \/ /\ op = "backtest"
          /\ pc = "bt_config"
          /\ configs \in SeqsOf(BacktestConfigs)
          /\ windows \in 1..MaxWindows
          /\ step_size \in 1..MaxStep
    /\ ci = 1
    /\ NoEndpoint
    /\ LocalsInit
    /\ NoCall

NextMulti ==
    \/ Prepare
    \/ RunForecast
    \/ OneStepStart
    \/ OneStepIter
    \/ OneStepFinish
    \/ Assemble
    \/ BatchCollect
    \/ BacktestConfig
    \/ WindowStart
    \/ WindowAssemble
    \/ ConfigFinish
    \/ RankAndReturn

SpecMulti == InitMulti /\ [][NextMulti]_vars

\* ---------------------------------------------------------------- endpoints
\* uploaded or inline rows as they arrive: unsorted, possibly repeating a
\* timestamp, possibly with a value of -1.0
RawRows ==
    {[ds |-> d, y |-> Scale] : d \in 1..3} \cup {[ds |-> 3, y |-> 0 - Scale]}

RawTables(n) == [1..n -> RawRows]

\* an ingestion that lets a repeated timestamp through
ValidateTimeseriesPayloadKeepingDuplicates(raw) ==
    IF Len(raw) < 2
    THEN [ok |-> FALSE, df |-> <<>>]
    ELSE [ok |-> TRUE, df |-> SortByDs(raw)]

\* validate_timeseries_payload on typed rows: [ok, df]
ValidateTimeseriesPayload(raw) ==
    LET duplicated == \E i, j \in 1..Len(raw) : i < j /\ raw[i].ds = raw[j].ds
    IN IF raw = <<>> \/ duplicated \/ Len(raw) < 2
       THEN [ok |-> FALSE, df |-> <<>>]
       ELSE [ok |-> TRUE, df |-> SortByDs(raw)]

\* the identifier /upload hands out, and one it never handed out
UploadIds == <<"u1", "u2", "u3", "u4">>

\* uuid4 that returns the same identifier on every call
NewUploadIdRepeated(store) == UploadIds[1]

\* str(uuid.uuid4()): an identifier no earlier upload was given
NewUploadId(store) == UploadIds[Cardinality(DOMAIN store) + 1]

\* the files sent to POST /upload: unsorted rows, rows with a value of -1,
\* a repeated timestamp, no rows
UploadRaws ==
    {<<[ds |-> 2, y |-> Scale], [ds |-> 1, y |-> Scale]>>,
     <<[ds |-> 1, y |-> Scale], [ds |-> 2, y |-> Scale], [ds |-> 3, y |-> 0 - Scale]>>,
     <<[ds |-> 1, y |-> Scale], [ds |-> 1, y |-> Scale]>>,
     <<>>}
UnknownUploadId == "u0"

\* bool(upload_id)
HasUpload(p) == p.upload_id # <<>> /\ p.upload_id[1] # ""

HasRecords(p) == p.records # <<>>

\* the data-source rule that lets every request through
DataSourceValidAlways(p) == TRUE

\* validate_data_source / validate_inputs / validate_backtest, source part
DataSourceValid(p) ==
    /\ HasUpload(p) # HasRecords(p)
    /\ HasRecords(p) => p.records[1] # <<>>

\* the configurations a request may carry: a log-transformed direct one and
\* a one-step one restricted to timestamps from 2 on
RequestConfigs ==
    {MkConfig(multi_step_recursive, 1, None, TRUE, None),
     MkConfig(one_step, 1, None, FALSE, 2)}

ConfigLists == UNION {[1..n -> RequestConfigs] : n \in 0..MaxConfigs}

InlineRecords(n) == {<<r>> : r \in RawTables(n)}

\* an upload reference alone, inline records alone or after an empty
\* identifier, both sources, neither
Payloads ==
    {[upload_id |-> <<u>>, records |-> <<>>] :
        u \in {"", UnknownUploadId} \cup {UploadIds[i] : i \in 1..MaxUploads}}
    \cup {[upload_id |-> <<>>, records |-> r] :
             r \in UNION {InlineRecords(n) : n \in 0..MaxRecords}}
    \cup {[upload_id |-> <<u>>, records |-> r] :
             u \in {"", UploadIds[1]},
             r \in {<<<<>>>>, <<[i \in 1..2 |-> [ds |-> i, y |-> Scale]]>>}}
    \cup {NoPayload}

\* POST /upload, lines 86-126: a validated table is stored under a new id
Upload ==
    /\ pc = "idle"
    /\ Cardinality(DOMAIN upload_store) < MaxUploads
    /\ \E raw \in UploadRaws :
          LET v == ValidateTimeseriesPayload(raw)
              upload_id == NewUploadId(upload_store)
          IN IF v.ok
             THEN /\ upload_store' = (upload_id :> v.df) @@ upload_store
                  /\ http' = <<[status |-> 201, detail |-> upload_id]>>
             ELSE /\ upload_store' = upload_store
                  /\ http' = <<[status |-> 400, detail |-> "invalid upload"]>>
    /\ UNCHANGED <<op, pc, data, configs, windows, step_size, payload, storeVars, objVars,
                   ci, prepVars, stepVars, dispVars, calls, btVars, outVars, fnVars>>

\* a POST /forecast, /forecast/batch or /backtest body arrives
Receive ==
    /\ pc = "idle"
    /\ payload' \in Payloads
    /\ \/ /\ op' = "forecast"
          /\ configs' \in {<<c>> : c \in RequestConfigs}
          /\ windows' = 0
          /\ step_size' = 0
       \/ /\ op' = "batch"
          /\ configs' \in ConfigLists
          /\ windows' = 0
          /\ step_size' = 0
       \/ /\ op' = "backtest"
          /\ configs' \in ConfigLists
          /\ windows' = 1
          /\ step_size' = 1
    /\ pc' = "received"
    /\ http' = <<>>
    /\ UNCHANGED <<data, upload_store, storeVars, objVars, ci, prepVars, stepVars,
                   dispVars, calls, btVars, outVars, fnVars>>

\* the model validators of the three request types
ValidateRequest ==
    /\ pc = "received"
    /\ pc' = IF (op \in {"batch", "backtest"} /\ configs = <<>>) \/ ~DataSourceValid(payload)
             THEN "rejected"
             ELSE "resolve"
    /\ UNCHANGED <<reqVars, ci, prepVars, stepVars, dispVars, calls, btVars,
                   outVars, fnVars>>

\* exceptions that reach an endpoint's except clauses
HTTPException(status, detail) ==
    [type |-> "HTTPException", status |-> status, detail |-> detail]
ValueError(detail) == [type |-> "ValueError", status |-> 0, detail |-> detail]
ImportError(detail) == [type |-> "ImportError", status |-> 0, detail |-> detail]

NotFoundDetail == "Upload was not found or expired."

\* detail of the last except clause of each endpoint
GenericDetail(endpoint) ==
    IF endpoint = "forecast" THEN "Forecast failed. See server logs for details."
    ELSE IF endpoint = "batch" THEN "Batch forecast failed. See server logs for details."
    ELSE "Backtest failed. See server logs for details."

\* the except clauses of forecast, forecast_batch and backtest, in order:
\* only forecast re-raises an HTTPException
ExceptClauses(endpoint, exc) ==
    IF exc.type = "ValidationError" THEN [status |-> 422, detail |-> exc.detail]
    ELSE IF exc.type = "ValueError" THEN [status |-> 400, detail |-> exc.detail]
    ELSE IF exc.type = "HTTPException" /\ endpoint = "forecast"
         THEN [status |-> exc.status, detail |-> exc.detail]
         ELSE [status |-> 500, detail |-> GenericDetail(endpoint)]

\* _resolve_payload_dataframe, then the service method is entered or the
\* endpoint's except clauses answer
ResolveData ==
    /\ pc = "resolve"
    /\ LET start == IF op = "backtest" THEN "bt_config" ELSE "prepare"
       IN IF HasUpload(payload)
          THEN IF payload.upload_id[1] \in DOMAIN upload_store
               THEN /\ data' = upload_store[payload.upload_id[1]]
                    /\ pc' = start
                    /\ http' = http
               ELSE /\ data' = data
                    /\ pc' = "not_found"
                    /\ http' = <<ExceptClauses(op, HTTPException(404, NotFoundDetail))>>
          ELSE LET v == ValidateTimeseriesPayload(
                            IF HasRecords(payload) THEN payload.records[1] ELSE <<>>)
               IN IF v.ok
                  THEN /\ data' = v.df
                       /\ pc' = start
                       /\ http' = http
                  ELSE /\ data' = data
                       /\ pc' = "error"
                       /\ http' = <<ExceptClauses(op, ValueError("invalid records"))>>
    /\ UNCHANGED <<op, configs, windows, step_size, payload, upload_store, storeVars, objVars,
                   ci, prepVars, stepVars, dispVars, calls, btVars, outVars, fnVars>>

\* the endpoint answers and the request's locals are gone; the store stays
Respond ==
    /\ pc \in {"done", "error", "not_found", "rejected"}
    /\ op' = "none"
    /\ pc' = "idle"
    /\ payload' = NoPayload
    /\ http' = <<>>
    /\ data' = <<>>
    /\ configs' = <<>>
    /\ windows' = 0
    /\ step_size' = 0
    /\ ci' = 1
    /\ ResetLocals
    /\ calls' = <<>>
    /\ splits' = <<>>
    /\ wi' = 0
    /\ window_results' = <<>>
    /\ metrics_buffer' = <<>>
    /\ results' = <<>>
    /\ leaderboard' = <<>>
    /\ response' = <<>>
    /\ UNCHANGED <<upload_store, storeVars, objVars, fnVars>>

InitRequest ==
    /\ op = "none"
    /\ pc = "idle"
    /\ NoEndpoint
    /\ data = <<>>
    /\ configs = <<>>
    /\ windows = 0
    /\ step_size = 0
    /\ ci = 1
    /\ LocalsInit
    /\ NoCall

NextRequest ==
    \/ Upload
    \/ Receive
    \/ ValidateRequest
    \/ ResolveData
    \/ Respond
    \/ Prepare
    \/ RunForecast
    \/ OneStepStart
    \/ OneStepIter
    \/ OneStepFinish
    \/ Assemble
    \/ BatchCollect
    \/ BacktestConfig
    \/ WindowStart
    \/ WindowAssemble
    \/ ConfigFinish
    \/ RankAndReturn

SpecRequest == InitRequest /\ [][NextRequest]_vars

\* ------------------------------------------- helpers called on their own
machineVars == <<data, configs, windows, step_size, payload, upload_store, http,
                 storeVars, objVars, ci,
                 prepVars, stepVars, dispVars, calls, btVars, outVars>>

\* _determine_test_size followed by _train_test_split
SplitInputs ==
    {[table |-> [i \in 1..n |-> [ds |-> i, y |-> Scale]], fraction |-> fr, horizon |-> h] :
        n \in 2..MaxTotal, fr \in Fractions, h \in 1..MaxFnHorizon}

InitSplit ==
    /\ op = "split"
    /\ pc = "call"
    /\ fn_args \in SplitInputs
    /\ fn_ret = <<>>
    /\ NoRequest
    /\ LocalsInit

CallSplit ==
    /\ op = "split"
    /\ pc = "call"
    /\ LET cfg == MkConfig(multi_step_recursive, fn_args.horizon, fn_args.fraction,
                           FALSE, None)
           holdout_size == DetermineTestSize(Len(fn_args.table), cfg)
       IN fn_ret' = [holdout_size |-> holdout_size,
                     split |-> TrainTestSplit(fn_args.table, holdout_size, fn_args.table)]
    /\ pc' = "ret"
    /\ UNCHANGED <<op, fn_args, machineVars>>

NextSplit == CallSplit

SpecSplit == InitSplit /\ [][NextSplit]_vars

\* _build_backtest_slices
SliceInputs ==
    [total : 0..MaxTotal, horizon : 1..MaxFnHorizon,
     windows : 1..MaxFnWindows, step : 1..MaxFnStep]

InitSlices ==
    /\ op = "slices"
    /\ pc = "call"
    /\ fn_args \in SliceInputs
    /\ fn_ret = <<>>
    /\ NoRequest
    /\ LocalsInit

CallSlices ==
    /\ op = "slices"
    /\ pc = "call"
    /\ fn_ret' = BuildBacktestSlices(fn_args.total, fn_args.horizon,
                                     fn_args.windows, fn_args.step)
    /\ pc' = "ret"
    /\ UNCHANGED <<op, fn_args, machineVars>>

NextSlices == CallSlices

SpecSlices == InitSlices /\ [][NextSlices]_vars

\* _rank_leaderboard
RankMetrics ==
    {[mae |-> m, rmse |-> r, mape |-> None] :
        m \in {None, 100, 200}, r \in {None, 150, 300, 2 * MaeOffset * Scale}}

RankInputs(n) ==
    {[i \in 1..n |-> [model_label |-> <<"entry", i>>, metrics |-> ms[i]]] :
        ms \in [1..n -> RankMetrics]}

InitRank ==
    /\ op = "rank"
    /\ pc = "call"
    /\ \E n \in 1..MaxEntries : fn_args \in RankInputs(n)
    /\ fn_ret = <<>>
    /\ NoRequest
    /\ LocalsInit

CallRank ==
    /\ op = "rank"
    /\ pc = "call"
    /\ fn_ret' = RankLeaderboard(fn_args)
    /\ pc' = "ret"
    /\ UNCHANGED <<op, fn_args, machineVars>>

NextRank == CallRank

SpecRank == InitRank /\ [][NextRank]_vars

\* ForecastConfig(**raw)
STATSFORECAST_MODELS ==
    {"arima", "auto_arima", "auto_ets", "naive", "seasonal_naive",
     "random_walk_with_drift", "window_average", "seasonal_window_average"}
MLFORECAST_MODELS == {"xgboost", "lightgbm", "random_forest", "catboost", "linear"}
NEURALFORECAST_MODELS == {"mlp", "rnn", "lstm", "gru"}

statsforecast == "StatsForecast"
mlforecast == "MLForecast"
neuralforecast == "NeuralForecast"
multi_output_direct == "multi_output_direct"

\* raw field values; lags is <<>> when absent and <<list>> when given
ConfigInputs ==
    [module_type : {statsforecast, mlforecast, neuralforecast},
     model_type : {"naive", "xgboost", "mlp"},
     strategy : {one_step, multi_step_recursive, multi_output_direct},
     lags : {<<>>, <<<<>>>>, <<<<2, 1, 2>>>>, <<<<0>>>>},
     input_size : {None, 0, 4},
     num_layers : {None, 2},
     hidden_size : {None, 8},
     epochs : {None, 5},
     early_stop_patience : {None, 3},
     early_stop_validation_fraction : {None, Scale \div 5}]

\* sorted(set(cleaned)) for a list of integers
RECURSIVE SortedSet(_)
SortedSet(S) ==
    IF S = {} THEN <<>>
    ELSE LET lo == CHOOSE x \in S : \A y \in S : x <= y
         IN <<lo>> \o SortedSet(S \ {lo})

\* the field validators, lines 183-205: the messages they raise
FieldErrors(raw) ==
    {m \in {"Lag values must be greater than zero.",
            "input_size must be greater than zero."} :
        \/ /\ m = "Lag values must be greater than zero."
           /\ raw.lags # <<>>
           /\ \E i \in 1..Len(raw.lags[1]) : raw.lags[1][i] <= 0
        \/ /\ m = "input_size must be greater than zero."
           /\ raw.input_size # None
           /\ raw.input_size <= 0}

NormalizedFields(raw) ==
    [raw EXCEPT !.lags = IF raw.lags = <<>> THEN <<>>
                         ELSE <<SortedSet(Range(raw.lags[1]))>>]

\* `not self.lags`
NoLags(c) == c.lags = <<>> \/ c.lags[1] = <<>>

NeuralSizesSet(c) ==
    c.num_layers # None \/ c.hidden_size # None \/ c.epochs # None

\* validate_module_combinations with `not self.lags` read as `self.lags is None`
ValidateModuleCombinationsAbsentLagsOnly(c) ==
    LET allowed_models ==
            IF c.module_type = statsforecast THEN STATSFORECAST_MODELS
            ELSE IF c.module_type = mlforecast THEN MLFORECAST_MODELS
            ELSE IF c.module_type = neuralforecast THEN NEURALFORECAST_MODELS
            ELSE {}
        family ==
            IF c.module_type = statsforecast
            THEN IF c.strategy = multi_output_direct
                 THEN "multi_output_direct is not supported for StatsForecast."
                 ELSE IF c.lags # <<>>
                 THEN "lags are only used with MLForecast models."
                 ELSE IF c.input_size # None
                 THEN "input_size is only used with NeuralForecast models."
                 ELSE IF NeuralSizesSet(c)
                 THEN "num_layers, hidden_size, and epochs are only used with NeuralForecast models."
                 ELSE ""
            ELSE IF c.module_type = mlforecast
            THEN IF c.lags = <<>>
                 THEN "Provide at least one lag for MLForecast models."
                 ELSE IF c.input_size # None
                 THEN "input_size is only used with NeuralForecast models."
                 ELSE IF NeuralSizesSet(c)
                 THEN "num_layers, hidden_size, and epochs are only used with NeuralForecast models."
                 ELSE ""
            ELSE IF c.module_type = neuralforecast
            THEN IF c.input_size = None
                 THEN "input_size is required for NeuralForecast models."
                 ELSE IF c.lags # <<>>
                 THEN "lags are not used with NeuralForecast models."
                 ELSE ""
            ELSE ""
    IN IF family # "" THEN family
       ELSE IF c.model_type \notin allowed_models
       THEN "Model is not valid for the module."
       ELSE ""

\* validate_module_combinations: the message raised, "" when none is
ValidateModuleCombinations(c) ==
    LET allowed_models ==
            IF c.module_type = statsforecast THEN STATSFORECAST_MODELS
            ELSE IF c.module_type = mlforecast THEN MLFORECAST_MODELS
            ELSE IF c.module_type = neuralforecast THEN NEURALFORECAST_MODELS
            ELSE {}
        family ==
            IF c.module_type = statsforecast
            THEN IF c.strategy = multi_output_direct
                 THEN "multi_output_direct is not supported for StatsForecast."
                 ELSE IF c.lags # <<>>
                 THEN "lags are only used with MLForecast models."
                 ELSE IF c.input_size # None
                 THEN "input_size is only used with NeuralForecast models."
                 ELSE IF NeuralSizesSet(c)
                 THEN "num_layers, hidden_size, and epochs are only used with NeuralForecast models."
                 ELSE ""
            ELSE IF c.module_type = mlforecast
            THEN IF NoLags(c)
                 THEN "Provide at least one lag for MLForecast models."
                 ELSE IF c.input_size # None
                 THEN "input_size is only used with NeuralForecast models."
                 ELSE IF NeuralSizesSet(c)
                 THEN "num_layers, hidden_size, and epochs are only used with NeuralForecast models."
                 ELSE ""
            ELSE IF c.module_type = neuralforecast
            THEN IF c.input_size = None
                 THEN "input_size is required for NeuralForecast models."
                 ELSE IF c.lags # <<>>
                 THEN "lags are not used with NeuralForecast models."
                 ELSE ""
            ELSE ""
    IN IF family # "" THEN family
       ELSE IF c.model_type \notin allowed_models
       THEN "Model is not valid for the module."
       ELSE ""

\* construction: field validators first, the model validator after them
ConstructConfig(raw) ==
    IF FieldErrors(raw) # {}
    THEN [ok |-> FALSE, errors |-> FieldErrors(raw), config |-> raw]
    ELSE LET c == NormalizedFields(raw)
             m == ValidateModuleCombinations(c)
         IN [ok |-> m = "", errors |-> IF m = "" THEN {} ELSE {m}, config |-> c]

InitConfig ==
    /\ op = "config"
    /\ pc = "call"
    /\ fn_args \in ConfigInputs
    /\ fn_ret = <<>>
    /\ NoRequest
    /\ LocalsInit

CallConfig ==
    /\ op = "config"
    /\ pc = "call"
    /\ fn_ret' = ConstructConfig(fn_args)
    /\ pc' = "ret"
    /\ UNCHANGED <<op, fn_args, machineVars>>

NextConfig == CallConfig

SpecConfig == InitConfig /\ [][NextConfig]_vars

\* _run_forecast with its backends, as POST /forecast runs it
OptionalPackages == {"mlforecast", "xgboost", "lightgbm", "catboost", "neuralforecast"}

FamilyModels ==
    {[module_type |-> statsforecast, model_type |-> m] : m \in STATSFORECAST_MODELS}
    \cup {[module_type |-> mlforecast, model_type |-> m] : m \in MLFORECAST_MODELS}
    \cup {[module_type |-> neuralforecast, model_type |-> m] : m \in NEURALFORECAST_MODELS}

\* a validated configuration, the installed optional packages, and whether
\* the library's forecast and its fitted-value retrieval raise
DispatchInputs ==
    {[config |-> c, installed |-> I, forecast_raises |-> fr, fitted_raises |-> tr] :
        c \in FamilyModels, I \in SUBSET OptionalPackages,
        fr \in BOOLEAN, tr \in BOOLEAN}

Returned(has_fitted) == [exc |-> <<>>, fitted |-> has_fitted]
Raised(exc) == [exc |-> <<exc>>, fitted |-> FALSE]

MlforecastGuidance ==
    "mlforecast is required for MLForecast models. Install with pip install mlforecast."
NeuralforecastGuidance ==
    "neuralforecast is required for NeuralForecast models. Install with pip install neuralforecast."
RegressorGuidance(name) ==
    IF name = "xgboost" THEN "Install xgboost to use the xgboost model."
    ELSE IF name = "lightgbm" THEN "Install lightgbm to use the lightgbm model."
    ELSE "Install catboost to use the catboost model."

\* _forecast_auto_arima: forecast and fitted values inside one try block
ForecastAutoArima(a) ==
    IF a.forecast_raises \/ a.fitted_raises
    THEN Raised(ValueError("StatsForecast AutoARIMA forecast failed"))
    ELSE Returned(TRUE)

\* _forecast_statsforecast: the fitted values have a try block of their own
ForecastStatsforecast(a) ==
    IF a.forecast_raises
    THEN Raised(ValueError("StatsForecast forecast failed"))
    ELSE Returned(~a.fitted_raises)

\* _build_ml_model: the exception it raises, if any
BuildMlModel(a) ==
    IF a.config.model_type \in {"xgboost", "lightgbm", "catboost"}
       /\ a.config.model_type \notin a.installed
    THEN <<ImportError(RegressorGuidance(a.config.model_type))>>
    ELSE <<>>

\* _forecast_mlforecast
ForecastMlforecast(a) ==
    IF "mlforecast" \notin a.installed THEN Raised(ImportError(MlforecastGuidance))
    ELSE IF BuildMlModel(a) # <<>> THEN Raised(BuildMlModel(a)[1])
    ELSE IF a.forecast_raises THEN Raised(ValueError("MLForecast forecast failed"))
    ELSE Returned(FALSE)

\* _forecast_neuralforecast
ForecastNeuralforecast(a) ==
    IF "neuralforecast" \notin a.installed THEN Raised(ValueError(NeuralforecastGuidance))
    ELSE IF a.forecast_raises THEN Raised(ValueError("NeuralForecast forecast failed"))
    ELSE Returned(FALSE)

\* _run_forecast
RunForecastDispatch(a) ==
    IF a.config.module_type = statsforecast
    THEN IF a.config.model_type = "auto_arima"
         THEN ForecastAutoArima(a)
         ELSE ForecastStatsforecast(a)
    ELSE IF a.config.module_type = mlforecast THEN ForecastMlforecast(a)
    ELSE ForecastNeuralforecast(a)

\* POST /forecast around the dispatcher: the response status, its error
\* detail and whether the response has a fitted segment
ForecastEndpoint(a) ==
    LET r == RunForecastDispatch(a)
    IN IF r.exc # <<>>
       THEN LET h == ExceptClauses("forecast", r.exc[1])
            IN [status |-> h.status, detail |-> h.detail, fitted |-> FALSE]
       ELSE [status |-> 200, detail |-> "", fitted |-> r.fitted]

InitDispatch ==
    /\ op = "dispatch"
    /\ pc = "call"
    /\ fn_args \in DispatchInputs
    /\ fn_ret = <<>>
    /\ NoRequest
    /\ LocalsInit

CallDispatch ==
    /\ op = "dispatch"
    /\ pc = "call"
    /\ fn_ret' = ForecastEndpoint(fn_args)
    /\ pc' = "ret"
    /\ UNCHANGED <<op, fn_args, machineVars>>

NextDispatch == CallDispatch

SpecDispatch == InitDispatch /\ [][NextDispatch]_vars

\* ------------------------------------------- the saved-configuration store
\* saved_configs is a dict: a sequence of SavedConfig values with distinct
\* ids, in insertion order.  config_file is the file on disk: missing,
\* unreadable, blank, unparseable, or JSON text holding a list of items; an
\* item is a dict whose keys may be absent (<<>>) or present (<<value>>).
ConfigNames == {"a", "b"}

SavedConfig(id, name) == [id |-> id, name |-> name]

Ids(d) == {d[i].id : i \in 1..Len(d)}

\* saved_configs[key] for a key of the dict
Lookup(d, key) == d[CHOOSE i \in 1..Len(d) : d[i].id = key]

\* d[key] = value: a new key goes last, an old key keeps its place
DictSet(d, key, value) ==
    IF key \in Ids(d)
    THEN [i \in 1..Len(d) |-> IF d[i].id = key THEN value ELSE d[i]]
    ELSE Append(d, value)

\* d.pop(key, None)
DictPop(d, key) == SelectSeq(d, LAMBDA v : v.id # key)

\* cfg.model_dump()
ModelDump(v) == [id |-> <<v.id>>, name |-> <<v.name>>]

\* SavedConfig(**item) raises unless every required key is there
ItemValid(item) == item.id # <<>> /\ item.name # <<>>

FromItem(item) == SavedConfig(item.id[1], item.name[1])

\* _persist_saved_configs that appends the new state to the old file
PersistSavedConfigsAppending(old, d) ==
    [state |-> "json", items |-> old.items \o [i \in 1..Len(d) |-> ModelDump(d[i])]]

\* _persist_saved_configs: the whole dict is written over the file
PersistSavedConfigs(old, d) ==
    [state |-> "json", items |-> [i \in 1..Len(d) |-> ModelDump(d[i])]]

RECURSIVE LoadItems(_, _)
LoadItems(items, acc) ==
    IF items = <<>> THEN acc
    ELSE LoadItems(Tail(items), DictSet(acc, Head(items).id[1], FromItem(Head(items))))

\* _load_saved_configs that skips the items it cannot validate
LoadSavedConfigsSkippingInvalid(f) ==
    IF f.state # "json" THEN <<>>
    ELSE LoadItems(SelectSeq(f.items, ItemValid), <<>>)

\* _load_saved_configs: any exception gives the empty dict
LoadSavedConfigs(f) ==
    IF f.state = "missing" THEN <<>>
    ELSE IF f.state \in {"unreadable", "blank", "unparseable"} THEN <<>>
    ELSE IF \E i \in 1..Len(f.items) : ~ItemValid(f.items[i]) THEN <<>>
    ELSE LoadItems(f.items, <<>>)

\* dicts with ids 1..n in that order
DictsUpTo(n) ==
    {d \in [1..n -> {SavedConfig(i, m) : i \in 1..n, m \in ConfigNames}] :
        \A i \in 1..n : d[i].id = i}

\* the files found at startup: what an earlier run persisted, the same with
\* one item damaged, and files that cannot be read or parsed
StartFiles ==
    {[state |-> st, items |-> <<>>] : st \in {"missing", "unreadable", "blank", "unparseable"}}
    \cup {PersistSavedConfigs(MissingFile, d) : d \in UNION {DictsUpTo(n) : n \in 0..2}}
    \cup {[state |-> "json",
           items |-> [PersistSavedConfigs(MissingFile, d).items EXCEPT ![k].name = <<>>]] :
             k \in 1..2, d \in DictsUpTo(2)}

\* the process is not running yet; some file is on disk
InitStore ==
    /\ op = "configs"
    /\ pc = "down"
    /\ config_file \in StartFiles
    /\ saved_configs = <<>>
    /\ issued = Len(config_file.items)
    /\ store_reply = <<>>
    /\ NoUploads
    /\ NoObjects
    /\ data = <<>>
    /\ configs = <<>>
    /\ windows = 0
    /\ step_size = 0
    /\ ci = 0
    /\ LocalsInit
    /\ NoCall

StoreFrame ==
    UNCHANGED <<op, data, configs, windows, step_size, payload, upload_store, http,
                objVars, ci, prepVars, stepVars, dispVars, calls, btVars, outVars, fnVars>>

\* create_app, lines 71-72: the process starts, or stops and starts again
CreateApp ==
    /\ op = "configs"
    /\ pc' = "serving"
    /\ saved_configs' = LoadSavedConfigs(config_file)
    /\ store_reply' = <<[kind |-> "startup", id |-> 0, status |-> 0, body |-> saved_configs']>>
    /\ UNCHANGED <<config_file, issued>>
    /\ StoreFrame

\* GET /configs
ListConfigs ==
    /\ op = "configs"
    /\ pc = "serving"
    /\ pc' = pc
    /\ store_reply' = <<[kind |-> "list", id |-> 0, status |-> 200, body |-> saved_configs]>>
    /\ UNCHANGED <<saved_configs, config_file, issued>>
    /\ StoreFrame

\* GET /configs/{config_id}
GetConfig ==
    /\ op = "configs"
    /\ pc = "serving"
    /\ pc' = pc
    /\ \E config_id \in 1..MaxSaved :
          store_reply' =
              IF config_id \notin Ids(saved_configs)
              THEN <<[kind |-> "get", id |-> config_id, status |-> 404, body |-> <<>>]>>
              ELSE <<[kind |-> "get", id |-> config_id, status |-> 200,
                      body |-> <<Lookup(saved_configs, config_id)>>]>>
    /\ UNCHANGED <<saved_configs, config_file, issued>>
    /\ StoreFrame

\* POST /configs: uuid4 gives an identifier no earlier call was given
SaveConfig ==
    /\ op = "configs"
    /\ pc = "serving"
    /\ pc' = pc
    /\ issued < MaxSaved
    /\ \E name \in ConfigNames :
          LET config_id == issued + 1
              saved == SavedConfig(config_id, name)
          IN /\ saved_configs' = DictSet(saved_configs, config_id, saved)
             /\ config_file' = PersistSavedConfigs(config_file, saved_configs')
             /\ issued' = config_id
             /\ store_reply' = <<[kind |-> "save", id |-> config_id, status |-> 201,
                                  body |-> <<saved>>]>>
    /\ StoreFrame

\* DELETE /configs/{config_id}
DeleteConfig ==
    /\ op = "configs"
    /\ pc = "serving"
    /\ pc' = pc
    /\ \E config_id \in 1..MaxSaved :
          IF config_id \notin Ids(saved_configs)
          THEN /\ store_reply' = <<[kind |-> "delete", id |-> config_id, status |-> 404,
                                    body |-> <<>>]>>
               /\ UNCHANGED <<saved_configs, config_file, issued>>
          ELSE /\ saved_configs' = DictPop(saved_configs, config_id)
               /\ config_file' = PersistSavedConfigs(config_file, saved_configs')
               /\ store_reply' = <<[kind |-> "delete", id |-> config_id, status |-> 204,
                                    body |-> <<>>]>>
               /\ UNCHANGED issued
    /\ StoreFrame

NextStore ==
    \/ CreateApp
    \/ ListConfigs
    \/ GetConfig
    \/ SaveConfig
    \/ DeleteConfig

SpecStore == InitStore /\ [][NextStore]_vars

\* ------------------------------------------------- the tables as objects
\* The service methods seen through the DataFrame objects they create and
\* write: heap maps a reference to the table the object holds now, a copy
\* allocates a new object, a column assignment writes the object in place.
Alloc(h, t) == [heap |-> Append(h, t), ref |-> Len(h) + 1]

\* DataFrame.copy()
CopyObj(h, r) == Alloc(h, h[r])

\* df[col] = values
AssignColumns(h, r, t) == [heap |-> [h EXCEPT ![r] = t], ref |-> r]

\* _prepare_dataframe that sorts the table it was given in place
PrepareDataframeRefInPlace(h, r) == AssignColumns(h, r, SortByDs(h[r]))

\* _prepare_dataframe, lines 251-258: two copies, the two columns converted
\* in the copy, then sort_values and reset_index give a new table
PrepareDataframeRef(h, r) ==
    LET c1 == CopyObj(h, r)
        c2 == CopyObj(c1.heap, c1.ref)
        w == AssignColumns(c2.heap, c2.ref, c2.heap[c2.ref])
    IN Alloc(w.heap, SortByDs(w.heap[w.ref]))

\* _apply_filters: filter_date_range ends in reset_index, a new table;
\* apply_missing_strategy returns its argument for "none"; reset_index again
ApplyFiltersRef(h, r, config) ==
    LET f == Alloc(h, FilterDateRange(h[r], config.date_start, config.date_end))
        m == IF config.missing_strategy = "none" THEN f
             ELSE Alloc(f.heap, ApplyMissingStrategy(f.heap[f.ref], config.missing_strategy))
    IN Alloc(m.heap, m.heap[m.ref])

\* _apply_log_transform, lines 374-375: a copy, then y is written in it
ApplyLogTransformRef(h, r) ==
    LET c == CopyObj(h, r)
    IN AssignColumns(c.heap, c.ref, ApplyLogTransform(c.heap[c.ref]))

\* the caller's tables: unsorted, sorted, holding a value of -1
FrameTables ==
    {<<[ds |-> 2, y |-> Scale], [ds |-> 1, y |-> 0], [ds |-> 3, y |-> Scale]>>,
     <<[ds |-> 1, y |-> Scale], [ds |-> 2, y |-> Scale], [ds |-> 3, y |-> 0]>>,
     <<[ds |-> 3, y |-> Scale], [ds |-> 2, y |-> 0 - Scale], [ds |-> 1, y |-> Scale]>>}

FrameConfigs ==
    {[MkConfig(multi_step_recursive, 1, None, lg, start) EXCEPT !.missing_strategy = ms] :
        lg \in BOOLEAN, start \in {None, 2}, ms \in {"none", "drop"}}

FrameConfigLists(o) ==
    UNION {[1..n -> FrameConfigs] : n \in 1..(IF o = "forecast" THEN 1 ELSE MaxConfigs)}

InitFrames ==
    /\ op \in {"forecast", "batch", "backtest"}
    /\ pc = "enter"
    /\ data \in FrameTables
    /\ configs \in FrameConfigLists(op)
    /\ heap = <<data>>
    /\ refs = [NoRefs EXCEPT !.caller = 1]
    /\ windows = 0
    /\ step_size = 0
    /\ ci = 1
    /\ NoUploads
    /\ NoSavedConfigs
    /\ LocalsInit
    /\ NoCall

FramesFrame ==
    UNCHANGED <<op, data, configs, windows, step_size, payload, upload_store, http,
                storeVars, run_config, train_df, holdout_df, holdout_actuals,
                stepVars, dispVars, calls, btVars, outVars, fnVars>>

\* forecast line 68 and backtest line 175 prepare the table once;
\* forecast_many prepares nothing before its loop
FramesBase ==
    /\ pc = "enter"
    /\ LET p == IF op = "batch" THEN [heap |-> heap, ref |-> refs.caller]
                ELSE PrepareDataframeRef(heap, refs.caller)
       IN /\ heap' = p.heap
          /\ refs' = [refs EXCEPT !.base = p.ref]
    /\ pc' = "config"
    /\ UNCHANGED <<ci, config_obj, df, model_df>>
    /\ FramesFrame

\* one configuration: forecast_many lines 145-146 with forecast lines 68-81,
\* backtest lines 177-182
FramesConfig ==
    /\ pc = "config"
    /\ LET cfg == configs[ci]
           b == IF op = "batch"
                THEN LET c == CopyObj(heap, refs.caller)
                     IN PrepareDataframeRef(c.heap, c.ref)
                ELSE [heap |-> heap, ref |-> refs.base]
           f == ApplyFiltersRef(b.heap, b.ref, cfg)
           ok == Len(f.heap[f.ref]) >= 2
                   /\ (cfg.log_transform => LogDomainOk(f.heap[f.ref]))
           m == IF cfg.log_transform THEN ApplyLogTransformRef(f.heap, f.ref)
                ELSE CopyObj(f.heap, f.ref)
       IN IF ~ok
          THEN /\ pc' = "error"
               /\ heap' = f.heap
               /\ UNCHANGED <<refs, config_obj, df, model_df>>
          ELSE /\ pc' = "configured"
               /\ heap' = m.heap
               /\ refs' = [refs EXCEPT !.df = f.ref, !.model = m.ref]
               /\ config_obj' = cfg
               /\ df' = m.heap[f.ref]
               /\ model_df' = m.heap[m.ref]
    /\ UNCHANGED ci
    /\ FramesFrame

\* the loop goes on to the next configuration or the method returns
FramesNextConfig ==
    /\ pc = "configured"
    /\ IF ci < Len(configs)
       THEN /\ ci' = ci + 1
            /\ pc' = "config"
       ELSE /\ ci' = ci
            /\ pc' = "returned"
    /\ UNCHANGED <<heap, refs, config_obj, df, model_df>>
    /\ FramesFrame

NextFrames ==
    \/ FramesBase
    \/ FramesConfig
    \/ FramesNextConfig

SpecFrames == InitFrames /\ [][NextFrames]_vars

\* _resolve_model_column
ColumnNames == {"ds", "unique_id", "naive", "Naive", "NAIVE", "mean", "naive-lo-80", "y_hat"}

\* str.lower, str.upper, str.capitalize on the model names in use
Lower(name) == IF name \in {"naive", "Naive", "NAIVE"} THEN "naive" ELSE name
Upper(name) == IF name \in {"naive", "Naive", "NAIVE"} THEN "NAIVE" ELSE name
Capitalize(name) == IF name \in {"naive", "Naive", "NAIVE"} THEN "Naive" ELSE name

\* "-lo-" in col or "-hi-" in col
HasIntervalMark(col) == col = "naive-lo-80"

NonIntervalCols(cols) ==
    SelectSeq(cols, LAMBDA col : ~HasIntervalMark(col) /\ col \notin {"ds", "unique_id"})

Candidates(model_type) ==
    {model_type, Lower(model_type), Upper(model_type), Capitalize(model_type), "mean"}

\* lines 485-494: the first non-interval column that is a candidate, else the
\* first non-interval column, else the error
ResolveModelColumn(cols, model_type) ==
    LET non_interval_cols == NonIntervalCols(cols)
        hits == SelectSeq(non_interval_cols, LAMBDA col : col \in Candidates(model_type))
    IN IF hits # <<>> THEN [ok |-> TRUE, col |-> hits[1]]
       ELSE IF non_interval_cols # <<>> THEN [ok |-> TRUE, col |-> non_interval_cols[1]]
       ELSE [ok |-> FALSE, col |-> ""]

\* the column lists of a forecast table: distinct names
ColumnLists(n) ==
    {cols \in [1..n -> ColumnNames] : \A i, j \in 1..n : i # j => cols[i] # cols[j]}

InitResolve ==
    /\ op = "resolve_model_column"
    /\ pc = "call"
    /\ \E n \in 0..MaxCols :
          fn_args \in {[cols |-> cols, model_type |-> m] :
                          cols \in ColumnLists(n), m \in {"naive", "Naive"}}
    /\ fn_ret = <<>>
    /\ NoRequest
    /\ LocalsInit

CallResolve ==
    /\ op = "resolve_model_column"
    /\ pc = "call"
    /\ fn_ret' = ResolveModelColumn(fn_args.cols, fn_args.model_type)
    /\ pc' = "ret"
    /\ UNCHANGED <<op, fn_args, machineVars>>

NextResolve == CallResolve

SpecResolve == InitResolve /\ [][NextResolve]_vars

\* ==================================================================== C1
\* the least integer c with c >= total * num / FracDen
CeilOf(total, num) ==
    CHOOSE c \in 0..total : c * FracDen >= total * num /\ (c - 1) * FracDen < total * num

Clamp(x, lo, hi) == IF x < lo THEN lo ELSE IF x > hi THEN hi ELSE x

\* C1: on a table of total >= 2 rows the test size is 0 for fraction 0,
\* ceil(total * fraction) clamped to [1, total-1] for a fraction > 0 and
\* min(horizon, total-1) for an unset fraction; the training table is exactly
\* the first total - test rows and the holdout exactly the trailing test
\* rows, so the training table is never empty and shares no row with the
\* holdout.
C1_SplitContract ==
    (op = "split" /\ pc = "ret") =>
        LET t == fn_args.table
            total == Len(t)
            fr == fn_args.fraction
            test == fn_ret.holdout_size
            sp == fn_ret.split
        IN /\ fr = 0 => test = 0
           /\ fr > 0 => test = Clamp(CeilOf(total, fr), 1, total - 1)
           /\ fr = None => test = (IF fn_args.horizon < total - 1
                                   THEN fn_args.horizon ELSE total - 1)
           /\ Len(sp.train) = total - test
           /\ \A i \in 1..Len(sp.train) : sp.train[i] = t[i]
           /\ sp.train # <<>>
           /\ test = 0 => sp.holdout = <<>> /\ sp.holdout_actuals = <<>>
           /\ test > 0 =>
                 /\ Len(sp.holdout) = 1
                 /\ Len(sp.holdout[1]) = test
                 /\ \A j \in 1..test : sp.holdout[1][j] = t[total - test + j]
                 /\ sp.holdout_actuals = sp.holdout
                 /\ \A i \in 1..Len(sp.train) : \A j \in 1..test :
                       sp.train[i].ds # sp.holdout[1][j].ds

C1_Witness ==
    /\ op = "split"
    /\ pc = "ret"
    /\ Len(fn_args.table) = 6
    /\ fn_args.fraction > 0
    /\ fn_ret.holdout_size = 3
    /\ Len(fn_ret.split.train) = 3

\* ==================================================================== C2
\* C2: one-step strategy on an n-row holdout: while the loop runs and after
\* it returned, the k-th dispatcher invocation has horizon 1 and is given the
\* original training rows followed by exactly the first k-1 holdout rows,
\* never holdout row k or a later one; when the loop has returned the
\* dispatcher was invoked exactly n times, n predictions were accumulated in
\* holdout order and the returned rows carry the holdout timestamps.
C2_OneStepRolls ==
    (op = "forecast" /\ pc \in {"onestep", "assemble", "done"} /\ UsesOneStep) =>
        LET h == holdout_df[1]
            n == Len(h)
        IN /\ Len(calls) <= n
           /\ \A k \in 1..Len(calls) :
                 /\ calls[k].horizon = 1
                 /\ calls[k].train = train_df \o Prefix(h, k - 1)
                 /\ \A r \in 1..Len(calls[k].train) : \A j \in k..n :
                       calls[k].train[r].ds # h[j].ds
           /\ pc \in {"assemble", "done"} =>
                 /\ n >= 1
                 /\ Len(calls) = n
                 /\ Len(predictions) = n
                 /\ Len(forecast_df.rows) = n
                 /\ \A k \in 1..n :
                       /\ forecast_df.rows[k].v = predictions[k]
                       /\ forecast_df.rows[k].ds = h[k].ds

C2_Witness ==
    /\ op = "forecast"
    /\ pc = "assemble"
    /\ UsesOneStep
    /\ Len(holdout_df[1]) >= 2
    /\ Len(calls) = Len(holdout_df[1])
    /\ Len(train_df) >= 2

\* ==================================================================== C3
\* C3: a forecast whose strategy is one-step never returns a response when
\* the holdout is empty.
C3_OneStepNeedsHoldout ==
    ~(/\ op = "forecast"
      /\ pc = "done"
      /\ config_obj.strategy = one_step
      /\ holdout_df = <<>>)

\* ==================================================================== C10
\* rows of the dispatcher result that survive cleaning: point forecast and
\* every present bound column of a requested level finite
KeptRows(fdf, levels) ==
    {i \in 1..Len(fdf.rows) :
        /\ fdf.rows[i].v # NaN
        /\ \A c \in fdf.cols : c[2] \in Range(levels) => fdf.rows[i].b[c] # NaN}

SameLengths(series, n) ==
    /\ Len(series.timestamps) = n
    /\ Len(series.forecast) = n
    /\ \A k \in 1..Len(series.bounds) :
          Len(series.bounds[k].lower) = n /\ Len(series.bounds[k].upper) = n

\* C10: in every returned ForecastResponse the timestamps, the point
\* forecasts and the lower and upper arrays of every interval have one length,
\* the number of forecast rows kept after cleaning; the arrays of a present
\* fitted segment have one length among themselves.
C10_EqualLengths ==
    (op = "forecast" /\ pc = "done") =>
        /\ Len(response) = 1
        /\ SameLengths(response[1],
                       Cardinality(KeptRows(forecast_df, config_obj.level)))
        /\ response[1].fitted # <<>> =>
              SameLengths(response[1].fitted[1],
                          Len(response[1].fitted[1].timestamps))

C10_Witness ==
    /\ op = "forecast"
    /\ pc = "done"
    /\ response[1].bounds # <<>>
    /\ response[1].fitted # <<>>
    /\ Len(response[1].timestamps) < Len(forecast_df.rows)
    /\ Len(response[1].fitted[1].timestamps) < Len(fitted_df[1].rows)

\* ==================================================================== C4
\* the reference rule of the backtest windows
RefStart(a) ==
    IF a.total - a.horizon * a.windows > 1 THEN a.total - a.horizon * a.windows ELSE 1

RefTestStart(a, i) == RefStart(a) + i * a.step

RefTestEnd(a, i) ==
    IF RefTestStart(a, i) + a.horizon < a.total
    THEN RefTestStart(a, i) + a.horizon ELSE a.total

RefKept(a) ==
    {i \in 0..(a.windows - 1) :
        /\ RefTestStart(a, i) >= 2
        /\ RefTestStart(a, i) < a.total
        /\ RefTestEnd(a, i) > RefTestStart(a, i)}

\* C4: _build_backtest_slices returns, in increasing i, exactly the kept
\* windows of the reference rule, each labelled i+1 and carrying the rule's
\* train_end, test_start and test_end, with
\* 2 <= train_end = test_start < test_end <= total.
C4_SlicesMatchRule ==
    (op = "slices" /\ pc = "ret") =>
        /\ Len(fn_ret) = Cardinality(RefKept(fn_args))
        /\ \A i \in RefKept(fn_args) : \E k \in 1..Len(fn_ret) : fn_ret[k].window = i + 1
        /\ \A k \in 1..Len(fn_ret) :
              LET i == fn_ret[k].window - 1
              IN /\ i \in RefKept(fn_args)
                 /\ fn_ret[k].test_start = RefTestStart(fn_args, i)
                 /\ fn_ret[k].test_end = RefTestEnd(fn_args, i)
                 /\ fn_ret[k].train_end = fn_ret[k].test_start
                 /\ 2 <= fn_ret[k].train_end
                 /\ fn_ret[k].test_start < fn_ret[k].test_end
                 /\ fn_ret[k].test_end <= fn_args.total
                 /\ k < Len(fn_ret) => fn_ret[k].window < fn_ret[k + 1].window

C4_Witness ==
    /\ op = "slices"
    /\ pc = "ret"
    /\ Len(fn_ret) >= 2
    /\ fn_ret[1].window > 1
    /\ fn_ret[Len(fn_ret)].test_end - fn_ret[Len(fn_ret)].test_start < fn_args.horizon

\* ==================================================================== C5
InWindow == op = "backtest" /\ pc \in {"dispatch", "onestep", "assemble"}

\* C5: in backtest every kept window is evaluated: its dispatcher is trained
\* on rows [0, train_end) and evaluated on rows [test_start, test_end), the
\* run's horizon is the window length, a direct run's training table holds no
\* evaluated row, a one-step window goes through the one-step loop, and the
\* reported train_size is train_end and test_size is test_end - test_start.
C5_WindowTables ==
    /\ InWindow =>
          LET sl == splits[wi]
              n == sl.test_end - sl.test_start
          IN /\ sl.train_end = sl.test_start
             /\ train_df = [i \in 1..sl.train_end |-> model_df[i]]
             /\ holdout_df = <<[j \in 1..n |-> model_df[sl.test_start + j]]>>
             /\ holdout_actuals = <<[j \in 1..n |-> df[sl.test_start + j]]>>
             /\ run_config.horizon = n
             /\ (pc = "assemble" /\ run_config.strategy # one_step) =>
                   /\ calls[Len(calls)].train = train_df
                   /\ calls[Len(calls)].horizon = n
                   /\ \A r \in 1..Len(train_df) : \A j \in 1..n :
                         train_df[r].ds # holdout_df[1][j].ds
             /\ (pc = "assemble" /\ run_config.strategy = one_step) =>
                   /\ Len(predictions) = n
                   /\ \A k \in 1..n :
                         /\ calls[Len(calls) - n + k].horizon = 1
                         /\ calls[Len(calls) - n + k].train =
                               train_df \o [j \in 1..(k - 1) |-> holdout_df[1][j]]
    /\ (op = "backtest" /\ pc = "bt_window") =>
          /\ Len(window_results) = wi
          /\ \A k \in 1..wi :
                /\ window_results[k].window = splits[k].window
                /\ window_results[k].train_size = splits[k].train_end
                /\ window_results[k].test_size = splits[k].test_end - splits[k].test_start

C5_Witness ==
    /\ op = "backtest"
    /\ pc = "bt_window"
    /\ wi = 2
    /\ Len(window_results) = 2
    /\ Len(calls) = 2
    /\ window_results[1].train_size = 2
    /\ window_results[2].train_size = 3

\* ==================================================================== C6
\* C6: every window evaluated by backtest has test_size equal to the
\* configuration's horizon.
C6_FullHorizonWindows ==
    (op = "backtest" /\ pc = "bt_window") =>
        \A k \in 1..Len(window_results) : window_results[k].test_size = config_obj.horizon

\* ==================================================================== C7
RECURSIVE SumOver(_, _, _)
SumOver(ws, f, K) ==
    IF K = {} THEN 0
    ELSE LET k == CHOOSE x \in K : TRUE
         IN ws[k].metrics[f] + SumOver(ws, f, K \ {k})

HasMetric(ws, f) == {k \in 1..Len(ws) : ws[k].metrics[f] # None}

\* C7: each aggregate metric of a configuration is the arithmetic mean over
\* exactly the windows where that metric is non-null and is null iff no window
\* has it; a configuration with no kept window has an all-null aggregate and
\* still has its result and its leaderboard row when the backtest returns.
C7_AggregateMeans ==
    op = "backtest" =>
        /\ \A r \in 1..Len(results) : \A f \in {"mae", "rmse", "mape"} :
              LET ws == results[r].windows
                  K == HasMetric(ws, f)
              IN /\ K = {} <=> results[r].aggregate[f] = None
                 /\ K # {} =>
                       results[r].aggregate[f] = SumOver(ws, f, K) \div Cardinality(K)
        /\ \A r \in 1..Len(results) :
              results[r].windows = <<>> => results[r].aggregate = NoMetrics
        /\ pc = "done" =>
              /\ Len(results) = Len(configs)
              /\ Len(leaderboard) = Len(configs)

C7_Witness ==
    /\ op = "backtest"
    /\ pc = "done"
    /\ \E r \in 1..Len(results) :
          /\ Len(results[r].windows) = 2
          /\ Cardinality(HasMetric(results[r].windows, "mape")) = 1
          /\ results[r].aggregate.mape > 0
          /\ results[r].aggregate.mae > 0

\* ==================================================================== C8
HasRmse(e) == e.metrics.rmse # None
MaeOnly(e) == e.metrics.rmse = None /\ e.metrics.mae # None
Metricless(e) == e.metrics.rmse = None /\ e.metrics.mae = None

\* C8: in the ranked leaderboard every entry with an RMSE precedes every
\* MAE-only entry, every entry with neither metric follows all others, the
\* RMSE-bearing entries are in ascending RMSE order and the MAE-only entries in
\* ascending MAE order, for any non-negative metric values.
C8_RankClasses ==
    (op = "rank" /\ pc = "ret") =>
        \A i, j \in 1..Len(fn_ret) :
            /\ (HasRmse(fn_ret[i]) /\ MaeOnly(fn_ret[j])) => i < j
            /\ (~Metricless(fn_ret[i]) /\ Metricless(fn_ret[j])) => i < j
            /\ (i < j /\ HasRmse(fn_ret[i]) /\ HasRmse(fn_ret[j])) =>
                  fn_ret[i].metrics.rmse <= fn_ret[j].metrics.rmse
            /\ (i < j /\ MaeOnly(fn_ret[i]) /\ MaeOnly(fn_ret[j])) =>
                  fn_ret[i].metrics.mae <= fn_ret[j].metrics.mae

\* ==================================================================== C9
Perms(n) == {p \in [1..n -> 1..n] : \A a, b \in 1..n : p[a] = p[b] => a = b}

\* the leaderboard row of result i
SubmittedEntry(i) ==
    [model_label |-> <<configs[i].module_type, configs[i].model_type>>,
     module_type |-> configs[i].module_type,
     metrics |-> IF op = "batch" THEN results[i].metrics ELSE results[i].aggregate,
     config |-> configs[i]]

RankKey(m) ==
    IF m.rmse # None THEN <<0, m.rmse>>
    ELSE IF m.mae # None THEN <<0, m.mae + 1000000 * Scale>>
    ELSE <<1, 0>>

\* C9: a returned batch forecast or backtest over k configurations has
\* exactly k results, result i belonging to configuration i, and a leaderboard
\* that is a permutation of one row per submitted configuration in which rows
\* with equal ranking keys keep their submission order.
C9_ResultsAndLeaderboard ==
    (op \in {"batch", "backtest"} /\ pc = "done") =>
        LET k == Len(configs)
        IN /\ Len(results) = k
           /\ \A i \in 1..k : results[i].config = configs[i]
           /\ Len(leaderboard) = k
           /\ \E p \in Perms(k) :
                 /\ \A a \in 1..k : leaderboard[a] = SubmittedEntry(p[a])
                 /\ \A a, b \in 1..k :
                       (a < b /\ RankKey(leaderboard[a].metrics) = RankKey(leaderboard[b].metrics))
                          => p[a] < p[b]

C9_Witness ==
    /\ op \in {"batch", "backtest"}
    /\ pc = "done"
    /\ Len(configs) = 2
    /\ configs[1] # configs[2]
    /\ Len(leaderboard) = 2
    /\ RankKey(leaderboard[1].metrics) = RankKey(leaderboard[2].metrics)
    /\ leaderboard[1].metrics.rmse # None

\* ==================================================================== C11
\* the dispatcher returned exactly `horizon` rows, every one of them finite
ReturnedFullFinite ==
    /\ Len(forecast_df.rows) = config_obj.horizon
    /\ \A i \in 1..Len(forecast_df.rows) :
          RowFinite(forecast_df.rows[i], CheckedCols(forecast_df, run_config.level))

\* C11: a single forecast with horizon h and test_size_fraction unset, on a
\* table of more than h rows and a backend that returns h finite rows,
\* returns exactly h timestamps and h point forecasts, every timestamp
\* strictly later than the last timestamp of the input table.
C11_FutureTimestamps ==
    (/\ op = "forecast"
     /\ pc = "done"
     /\ config_obj.test_size_fraction = None
     /\ Len(data) > config_obj.horizon
     /\ ReturnedFullFinite) =>
        /\ Len(response[1].timestamps) = config_obj.horizon
        /\ Len(response[1].forecast) = config_obj.horizon
        /\ \A i \in 1..Len(response[1].timestamps) :
              response[1].timestamps[i] > LastDs(data)

\* ==================================================================== C12
\* C12: for a window-average or seasonal-window-average forecast with the
\* multi-step strategy and test_size_fraction unset, served by a backend that
\* returns as many rows as the dispatcher requested, the number of point
\* forecasts in the response is the holdout size of _determine_test_size plus
\* the configured horizon.
C12_WindowAverageLength ==
    (/\ op = "forecast"
     /\ pc = "done"
     /\ config_obj.model_type \in WindowModels
     /\ config_obj.strategy = multi_step_recursive
     /\ config_obj.test_size_fraction = None
     /\ Len(calls) = 1
     /\ Len(forecast_df.rows) = calls[1].horizon
     /\ \A i \in 1..Len(forecast_df.rows) : IsFinite(forecast_df.rows[i].v)) =>
        Len(response[1].forecast) =
            DetermineTestSize(Len(df), config_obj) + config_obj.horizon

\* ==================================================================== C13
\* positions of the rows whose point forecast and whose present lower and
\* upper columns of the requested levels are all finite
FiniteRows(fdf, levels) ==
    {i \in 1..Len(fdf.rows) :
        /\ IsFinite(fdf.rows[i].v)
        /\ \A k \in 1..Len(levels) : \A c \in {LoCol(levels[k]), HiCol(levels[k])} :
              c \in fdf.cols => IsFinite(fdf.rows[i].b[c])}

\* the k-th smallest member of a set of positions
NthOf(K, k) == CHOOSE i \in K : Cardinality({j \in K : j <= i}) = k

Inverted(x) == IF run_config.log_transform THEN Expm1(x) ELSE x

C13_CleanStep ==
    (pc = "assemble" /\ op = "forecast") =>
        LET levels == run_config.level
            K == FiniteRows(forecast_df, levels)
            H == IF holdout_actuals = <<>> THEN <<>> ELSE holdout_actuals[1]
        IN /\ (K = {}) <=> (pc' = "error")
           /\ K # {} =>
                 LET r == response'[1]
                 IN /\ r.forecast =
                          [k \in 1..Cardinality(K) |->
                              Inverted(forecast_df.rows[NthOf(K, k)].v)]
                    /\ r.timestamps =
                          [k \in 1..Cardinality(K) |->
                              IF k <= Len(H) THEN H[k].ds
                              ELSE forecast_df.rows[NthOf(K, k)].ds]
                    /\ (fitted_df = <<>>) <=> (r.fitted = <<>>)
                    /\ fitted_df # <<>> =>
                          LET F == FiniteRows(fitted_df[1], levels)
                          IN /\ r.fitted[1].forecast =
                                   [k \in 1..Cardinality(F) |->
                                       Inverted(fitted_df[1].rows[NthOf(F, k)].v)]
                             /\ r.fitted[1].timestamps =
                                   [k \in 1..Cardinality(F) |->
                                       fitted_df[1].rows[NthOf(F, k)].ds]

\* C13: cleaning keeps a row iff its point forecast and every present lower
\* and upper column of a requested level are finite, kept rows keep their
\* order, the rows are dropped before log inversion and before alignment, an
\* empty primary table or an empty cleaned primary table ends the forecast
\* with an error, and the fitted segment is cleaned the same way without ever
\* raising.
C13_NonFiniteCleaning == [][C13_CleanStep]_vars

C13_Witness ==
    /\ op = "forecast"
    /\ pc = "done"
    /\ holdout_actuals # <<>>
    /\ Len(forecast_df.rows) = 2
    /\ ~IsFinite(forecast_df.rows[1].v)
    /\ Len(response[1].timestamps) = 1
    /\ response[1].fitted # <<>>
    /\ fitted_df[1].rows # <<>>
    /\ response[1].fitted[1].timestamps = <<>>

\* ==================================================================== C14
\* the sum of |actual - forecast| ^ e over the first n positions
RECURSIVE ErrPowerSum(_, _, _, _)
ErrPowerSum(H, f, n, e) ==
    IF n = 0 THEN 0
    ELSE LET d == IF H[n].y >= f[n] THEN H[n].y - f[n] ELSE f[n] - H[n].y
         IN (IF e = 2 THEN d * d ELSE d) + ErrPowerSum(H, f, n - 1, e)

\* C14: alignment is positional: with m cleaned forecast rows and a
\* non-empty holdout of p rows, the first min(m, p) rows take the holdout
\* timestamps of the same positions whatever timestamps the backend produced
\* and are the only rows that enter the metrics, the rows after them keep
\* their own timestamps, and no forecast value is changed.
C14_PositionalAlignment ==
    (op = "forecast" /\ pc = "done" /\ holdout_actuals # <<>>) =>
        LET H == holdout_actuals[1]
            K == FiniteRows(forecast_df, run_config.level)
            m == Cardinality(K)
            n == IF m <= Len(H) THEN m ELSE Len(H)
            r == response[1]
        IN /\ Len(r.forecast) = m
           /\ Len(r.timestamps) = m
           /\ \A k \in 1..m :
                 /\ r.forecast[k] = Inverted(forecast_df.rows[NthOf(K, k)].v)
                 /\ r.timestamps[k] = IF k <= n THEN H[k].ds
                                      ELSE forecast_df.rows[NthOf(K, k)].ds
           /\ r.metrics.mae = ErrPowerSum(H, r.forecast, n, 1) \div n
           /\ r.metrics.rmse = Isqrt(ErrPowerSum(H, r.forecast, n, 2) \div n)

C14_Witness ==
    /\ op = "forecast"
    /\ pc = "done"
    /\ holdout_actuals # <<>>
    /\ Len(holdout_actuals[1]) = 1
    /\ Len(response[1].timestamps) = 2
    /\ forecast_df.rows[1].ds # holdout_actuals[1][1].ds
    /\ response[1].timestamps[1] = holdout_actuals[1][1].ds
    /\ response[1].forecast[2] # response[1].forecast[1]
    /\ response[1].metrics.mae # ErrPowerSum(<<holdout_actuals[1][1], holdout_actuals[1][1]>>,
                                              response[1].forecast, 2, 1) \div 2

\* ==================================================================== C15
\* the sum over the positions in NZ of |actual - forecast| / |actual|
RECURSIVE PctErrSum(_, _, _)
PctErrSum(H, f, NZ) ==
    IF NZ = {} THEN 0
    ELSE LET k == CHOOSE x \in NZ : TRUE
             d == IF H[k].y >= f[k] THEN H[k].y - f[k] ELSE f[k] - H[k].y
             a == IF H[k].y >= 0 THEN H[k].y ELSE 0 - H[k].y
         IN (d * Scale) \div a + PctErrSum(H, f, NZ \ {k})

\* C15: the metrics of a forecast response are all null iff there is no
\* holdout, which is the case when test_size_fraction is 0; with a holdout
\* MAE and RMSE are non-null; MAPE is the mean over exactly the aligned rows
\* whose actual is non-zero and is null iff every aligned actual is 0.
C15_MetricNullness ==
    (op = "forecast" /\ pc = "done") =>
        LET r == response[1]
            H == IF holdout_actuals = <<>> THEN <<>> ELSE holdout_actuals[1]
            n == IF Len(r.forecast) <= Len(H) THEN Len(r.forecast) ELSE Len(H)
            NZ == {k \in 1..n : H[k].y # 0}
        IN /\ (holdout_actuals = <<>>) <=> (r.metrics = NoMetrics)
           /\ config_obj.test_size_fraction = 0 => r.metrics = NoMetrics
           /\ holdout_actuals # <<>> =>
                 /\ r.metrics.mae # None
                 /\ r.metrics.rmse # None
                 /\ (NZ = {}) <=> (r.metrics.mape = None)
                 /\ NZ # {} =>
                       r.metrics.mape =
                           (PctErrSum(H, r.forecast, NZ) \div Cardinality(NZ)) * 100

C15_Witness ==
    /\ op = "forecast"
    /\ pc = "done"
    /\ holdout_actuals # <<>>
    /\ Len(holdout_actuals[1]) = 2
    /\ Len(response[1].forecast) = 2
    /\ holdout_actuals[1][1].y # 0
    /\ holdout_actuals[1][2].y = 0
    /\ response[1].forecast[2] # 0
    /\ response[1].metrics.mape > 0
    /\ response[1].metrics.mae > 0

\* ==================================================================== C16
\* the interval of `level` in a response series, or <<>> when it has none
IntervalOf(series, level) ==
    SelectSeqBy(series.bounds, [k \in 1..Len(series.bounds) |-> series.bounds[k].level = level])

\* a response series is the once-inverted image of the rows K of table fdf
InvertedOnce(series, fdf, K, levels) ==
    /\ \A k \in 1..Cardinality(K) :
          series.forecast[k] = Expm1(fdf.rows[NthOf(K, k)].v)
    /\ \A j \in 1..Len(levels) :
          (LoCol(levels[j]) \in fdf.cols /\ HiCol(levels[j]) \in fdf.cols) =>
              /\ Len(IntervalOf(series, levels[j])) = 1
              /\ \A k \in 1..Cardinality(K) :
                    /\ IntervalOf(series, levels[j])[1].lower[k] =
                          Expm1(fdf.rows[NthOf(K, k)].b[LoCol(levels[j])])
                    /\ IntervalOf(series, levels[j])[1].upper[k] =
                          Expm1(fdf.rows[NthOf(K, k)].b[HiCol(levels[j])])

LogForecastDone == op = "forecast" /\ pc = "done" /\ config_obj.log_transform

\* training on log1p, one inversion of every column, metrics on raw actuals
LogPipeline ==
    LET r == response[1]
        levels == run_config.level
        K == FiniteRows(forecast_df, levels)
        H == IF holdout_actuals = <<>> THEN <<>> ELSE holdout_actuals[1]
        n == IF Cardinality(K) <= Len(H) THEN Cardinality(K) ELSE Len(H)
    IN /\ \A c \in 1..Len(calls) : \A i \in 1..Len(calls[c].train) :
             /\ calls[c].train[i].ds = df[i].ds
             /\ calls[c].train[i].y = Log1p(df[i].y)
       /\ InvertedOnce(r, forecast_df, K, levels)
       /\ r.fitted # <<>> =>
             InvertedOnce(r.fitted[1], fitted_df[1], FiniteRows(fitted_df[1], levels), levels)
       /\ \A k \in 1..Len(H) :
             /\ H[k] = df[Len(df) - Len(H) + k]
             /\ holdout_df[1][k].ds = H[k].ds
             /\ holdout_df[1][k].y = Log1p(H[k].y)
       /\ H # <<>> =>
             /\ r.metrics.mae = ErrPowerSum(H, r.forecast, n, 1) \div n
             /\ r.metrics.rmse = Isqrt(ErrPowerSum(H, r.forecast, n, 2) \div n)

\* the aligned positions where the backend returned log1p of the actual
EchoedRows ==
    LET K == FiniteRows(forecast_df, run_config.level)
        H == IF holdout_actuals = <<>> THEN <<>> ELSE holdout_actuals[1]
    IN {k \in 1..Cardinality(K) :
           k <= Len(H) /\ forecast_df.rows[NthOf(K, k)].v = Log1p(H[k].y)}

RepeatsTimestamp(t) == \E i, j \in 1..Len(t) : i # j /\ t[i].ds = t[j].ds

InlineDuplicate ==
    /\ ~HasUpload(payload)
    /\ HasRecords(payload)
    /\ RepeatsTimestamp(payload.records[1])

\* rows of the resolved table inside the date range of configuration c
RowsInRange(c) ==
    {i \in 1..Len(data) :
        /\ c.date_start # None => data[i].ds >= c.date_start
        /\ c.date_end # None => data[i].ds <= c.date_end}

\* configuration c cannot be run on the resolved table
Doomed(c) ==
    \/ Cardinality(RowsInRange(c)) < 2
    \/ c.log_transform /\ \E i \in RowsInRange(c) : data[i].y <= 0 - Scale

C17_Stored ==
    \A u \in DOMAIN upload_store :
        /\ ~RepeatsTimestamp(upload_store[u])
        /\ Len(upload_store[u]) >= 2

C17_Reached ==
    /\ C17_Stored
    /\ InlineDuplicate =>
          (calls = <<>> /\ pc \in {"received", "rejected", "resolve", "error"})
    /\ pc \in {"prepare", "bt_config", "dispatch", "onestep", "assemble", "collect",
                "bt_window", "rank", "done"} =>
          \A j \in 1..Len(configs) :
              Doomed(configs[j]) =>
                  /\ ci <= j
                  /\ ci = j => pc \in {"prepare", "bt_config"}
                  /\ j = 1 => calls = <<>>

C17_Step ==
    (pc \in {"prepare", "bt_config"} /\ Doomed(configs[ci])) =>
        /\ pc' = "error"
        /\ calls' = calls
        /\ UNCHANGED <<train_df, holdout_df, splits>>

Allowed(module) ==
    IF module = statsforecast THEN STATSFORECAST_MODELS
    ELSE IF module = mlforecast THEN MLFORECAST_MODELS
    ELSE NEURALFORECAST_MODELS

\* C18: constructing a ForecastConfig from field values that are valid one by
\* one always ends in a config or in an error; a neural-sequence config
\* without input_size fails with the "input_size is required" error, a
\* lag-regression config whose lags are absent or empty fails with the
\* "Provide at least one lag" error, a statistical config with the
\* direct-multi-output strategy fails, a model identifier outside the
\* family's set fails, and no constructed config violates any of these.
C18_FamilyRules ==
    (op = "config" /\ pc = "ret") =>
        LET a == fn_args
            r == fn_ret
        IN /\ r.ok <=> r.errors = {}
           /\ FieldErrors(a) = {} =>
                 /\ (a.module_type = neuralforecast /\ a.input_size = None) =>
                       r.errors = {"input_size is required for NeuralForecast models."}
                 /\ (a.module_type = mlforecast /\ (a.lags = <<>> \/ a.lags = <<<<>>>>)) =>
                       r.errors = {"Provide at least one lag for MLForecast models."}
           /\ (a.module_type = statsforecast /\ a.strategy = multi_output_direct) => ~r.ok
           /\ a.model_type \notin Allowed(a.module_type) => ~r.ok
           /\ r.ok =>
                 /\ r.config.module_type = neuralforecast => r.config.input_size # None
                 /\ r.config.module_type = mlforecast =>
                       (r.config.lags # <<>> /\ r.config.lags[1] # <<>>)
                 /\ r.config.module_type = statsforecast =>
                       r.config.strategy # multi_output_direct
                 /\ r.config.model_type \in Allowed(r.config.module_type)

C18_Witness ==
    /\ op = "config"
    /\ pc = "ret"
    /\ fn_args.module_type = mlforecast
    /\ fn_args.lags = <<<<>>>>
    /\ fn_args.model_type = "xgboost"
    /\ fn_ret.errors = {"Provide at least one lag for MLForecast models."}

\* ==================================================================== C19
\* C19: a config is rejected when lags is set and the family is not
\* lag-regression, and when any of input_size, num_layers, hidden_size,
\* epochs, early_stop_patience or early_stop_validation_fraction is set and
\* the family is not neural-sequence.
C19_FamilyOnlyFields ==
    (op = "config" /\ pc = "ret") =>
        LET a == fn_args
        IN /\ (a.lags # <<>> /\ a.module_type # mlforecast) => ~fn_ret.ok
           /\ (/\ a.module_type # neuralforecast
               /\ \/ a.input_size # None
                  \/ a.num_layers # None
                  \/ a.hidden_size # None
                  \/ a.epochs # None
                  \/ a.early_stop_patience # None
                  \/ a.early_stop_validation_fraction # None) => ~fn_ret.ok

\* ==================================================================== C20
\* a request body the validators must turn down
BadSource ==
    \/ HasUpload(payload) /\ HasRecords(payload)
    \/ ~HasUpload(payload) /\ ~HasRecords(payload)
    \/ HasRecords(payload) /\ payload.records[1] = <<>>
    \/ op \in {"batch", "backtest"} /\ configs = <<>>

C20_Accepted ==
    (op \in {"forecast", "batch", "backtest"} /\ pc \notin {"idle", "received", "rejected"})
        => ~BadSource

C20_Step ==
    (pc = "received" /\ BadSource) => pc' = "rejected"

\* C20: a forecast, batch or backtest request gets past validation only with
\* exactly one data source: it is rejected when both an upload reference and
\* inline records are given, when neither is given, and when the inline
\* record list is empty; a batch or backtest request is also rejected when
\* its configuration list is empty.
C20_OneDataSource == []C20_Accepted /\ [][C20_Step]_vars

C20_Witness ==
    /\ pc = "rejected"
    /\ op = "backtest"
    /\ configs # <<>>
    /\ HasUpload(payload)
    /\ HasRecords(payload)
    /\ payload.records[1] # <<>>

\* ==================================================================== C21
\* C21: a forecast, batch-forecast or backtest request that references an
\* upload id absent from the upload store is answered with a not-found
\* error carrying the "not found or expired" message, never with a generic
\* internal failure.
C21_NotFoundReported ==
    (/\ op \in {"forecast", "batch", "backtest"}
     /\ pc \notin {"idle", "received", "rejected", "resolve"}
     /\ HasUpload(payload)
     /\ payload.upload_id[1] \notin DOMAIN upload_store)
        => http = <<[status |-> 404, detail |-> NotFoundDetail]>>

\* ==================================================================== C22
\* the optional packages the requested model imports
Needed(c) ==
    IF c.module_type = mlforecast
    THEN {"mlforecast"} \cup ({c.model_type} \cap OptionalPackages)
    ELSE IF c.module_type = neuralforecast THEN {"neuralforecast"}
    ELSE {}

Guidance ==
    {MlforecastGuidance, NeuralforecastGuidance}
    \cup {RegressorGuidance(n) : n \in {"xgboost", "lightgbm", "catboost"}}

\* C22: when an optional package needed by the requested lag-regression or
\* neural-sequence model is not installed, the forecast request ends with a
\* client error whose message is the install guidance, never with the
\* generic failure message and never with a forecast.
C22_InstallGuidance ==
    (op = "dispatch" /\ pc = "ret" /\ ~(Needed(fn_args.config) \subseteq fn_args.installed))
        => /\ fn_ret.status = 400
           /\ fn_ret.detail \in Guidance

\* ==================================================================== C23
\* C23: for every statistical model, auto_arima included, when the backend
\* forecast succeeds and the retrieval of the fitted values fails, the
\* forecast succeeds and its response has no fitted segment.
C23_FittedFailureTolerated ==
    (/\ op = "dispatch"
     /\ pc = "ret"
     /\ fn_args.config.module_type = statsforecast
     /\ ~fn_args.forecast_raises
     /\ fn_args.fitted_raises)
        => /\ fn_ret.status = 200
           /\ ~fn_ret.fitted

\* ==================================================================== C24
\* every identifier in the store has been issued
C24_Issued == op = "configs" => Ids(saved_configs) \subseteq 1..issued

Kept(id) == id \in Ids(saved_configs') /\ Lookup(saved_configs', id) = Lookup(saved_configs, id)

StoreUntouched == saved_configs' = saved_configs /\ config_file' = config_file

C24_Step ==
    op = "configs" =>
        LET r == store_reply'[1]
            wrote == r.kind = "save" \/ (r.kind = "delete" /\ r.status = 204)
        IN /\ issued' >= issued
           /\ wrote => LoadSavedConfigs(config_file') = saved_configs'
           /\ r.kind = "save" =>
                 /\ r.id > issued
                 /\ Ids(saved_configs') = Ids(saved_configs) \cup {r.id}
                 /\ Lookup(saved_configs', r.id) = r.body[1]
                 /\ \A id \in Ids(saved_configs) : Kept(id)
           /\ r.kind = "list" => r.body = saved_configs /\ StoreUntouched
           /\ r.kind = "get" =>
                 /\ StoreUntouched
                 /\ IF r.id \in Ids(saved_configs)
                    THEN r.status = 200 /\ r.body = <<Lookup(saved_configs, r.id)>>
                    ELSE r.status = 404
           /\ r.kind = "delete" =>
                 IF r.id \in Ids(saved_configs)
                 THEN /\ r.status = 204
                      /\ Ids(saved_configs') = Ids(saved_configs) \ {r.id}
                      /\ \A id \in Ids(saved_configs') : Kept(id)
                 ELSE r.status = 404 /\ StoreUntouched
           /\ r.kind = "startup" =>
                 (pc = "serving" => \A id \in Ids(saved_configs) : Kept(id))

\* C24: under any sequence of create, list, get and delete requests the
\* file holds exactly the in-memory set after every create or delete; a
\* created config is returned by get and list until it is deleted; get and
\* delete of an absent id answer not-found and change neither the set nor
\* the file; an id that left the set never enters it again.
C24_StoreConsistent == []C24_Issued /\ [][C24_Step]_vars

C24_Witness ==
    /\ op = "configs"
    /\ pc = "serving"
    /\ store_reply[1].kind = "delete"
    /\ store_reply[1].status = 204
    /\ issued = MaxSaved
    /\ Len(saved_configs) = 2
    /\ config_file.items = [i \in 1..2 |-> ModelDump(saved_configs[i])]

\* ==================================================================== C25
\* C25: loading the store at startup never fails: it gives exactly the set
\* last persisted when the file is fully valid, and the empty set when the
\* file is missing, blank, unreadable, unparseable or holds an invalid item.
C25_LoadAllOrNothing ==
    (op = "configs" /\ pc = "serving" /\ store_reply[1].kind = "startup") =>
        IF /\ config_file.state = "json"
           /\ \A i \in 1..Len(config_file.items) : ItemValid(config_file.items[i])
        THEN /\ Len(saved_configs) = Len(config_file.items)
             /\ \A i \in 1..Len(saved_configs) :
                   ModelDump(saved_configs[i]) = config_file.items[i]
        ELSE saved_configs = <<>>

C25_Witness ==
    /\ op = "configs"
    /\ pc = "serving"
    /\ store_reply[1].kind = "startup"
    /\ config_file.state = "json"
    /\ Len(config_file.items) = 2
    /\ ~ItemValid(config_file.items[2])
    /\ ItemValid(config_file.items[1])
    /\ saved_configs = <<>>

\* ==================================================================== C26
C26_Step ==
    /\ \A u \in DOMAIN upload_store :
          u \in DOMAIN upload_store' /\ upload_store'[u] = upload_store[u]
    /\ (pc = "resolve" /\ HasUpload(payload)
            /\ payload.upload_id[1] \in DOMAIN upload_store) =>
          /\ pc' \in {"prepare", "bt_config"}
          /\ data' = upload_store[payload.upload_id[1]]
    /\ (pc = "idle" /\ pc' = "idle" /\ http' # <<>>) =>
          IF http'[1].status = 201
          THEN /\ http'[1].detail \notin DOMAIN upload_store
               /\ DOMAIN upload_store' = DOMAIN upload_store \cup {http'[1].detail}
          ELSE upload_store' = upload_store
    /\ pc # "idle" => upload_store' = upload_store
    /\ (pc \notin {"idle", "received", "resolve"} /\ pc' # "idle") => data' = data

AloneDf(c) == ApplyFilters(PrepareDataframe(data), c).df
AloneModelDf(c) == IF c.log_transform THEN ApplyLogTransform(AloneDf(c)) ELSE AloneDf(c)

\* C27: forecast, forecast_many and backtest never change the caller's
\* table, and in a batch or backtest the filtered table and the training
\* table of every configuration are what that configuration alone makes of
\* the caller's original table, whatever configurations ran before it.
C27_CallerTableKept ==
    (heap # <<>>) =>
        /\ heap[refs.caller] = data
        /\ pc \in {"configured", "returned"} =>
              /\ df = AloneDf(config_obj)
              /\ model_df = AloneModelDf(config_obj)
              /\ heap[refs.df] = df
              /\ heap[refs.model] = model_df
              /\ refs.df \notin {refs.caller, refs.base, refs.model}

C27_Witness ==
    /\ op = "backtest"
    /\ pc = "configured"
    /\ ci = 2
    /\ configs[1].log_transform
    /\ configs[1].date_start = 2
    /\ ~configs[2].log_transform
    /\ configs[2].date_start = None
    /\ data[1].ds > data[2].ds
    /\ Len(df) = 3

\* ==================================================================== C28
\* the candidates in the order exact, lowercase, uppercase, capitalized, mean
CandidateOrder(model_type) ==
    <<model_type, Lower(model_type), Upper(model_type), Capitalize(model_type), "mean">>

\* C28: _resolve_model_column returns the first candidate, tried in the order
\* exact name, lowercase, uppercase, capitalized, "mean", that is a
\* non-interval column; when no candidate is a column it returns the first
\* non-interval column, and it raises when there is no non-interval column.
C28_CandidatePriority ==
    (op = "resolve_model_column" /\ pc = "ret") =>
        LET usable == Range(NonIntervalCols(fn_args.cols))
            order == CandidateOrder(fn_args.model_type)
            found == {k \in 1..Len(order) : order[k] \in usable}
        IN IF found # {}
           THEN fn_ret = [ok |-> TRUE, col |-> order[CHOOSE k \in found : \A j \in found : k <= j]]
           ELSE IF usable # {}
                THEN fn_ret = [ok |-> TRUE, col |-> NonIntervalCols(fn_args.cols)[1]]
                ELSE ~fn_ret.ok

\* ==================================================================== C29
Paired(m) == (m.mae = None) <=> (m.rmse = None)

\* C29: in every metrics value forecast, forecast_many and backtest produce,
\* per response, per window and per aggregate, MAE is null exactly when RMSE
\* is null, so no leaderboard entry the service builds has an MAE without an
\* RMSE and the ranking never scores an entry by MAE + 1,000,000.
C29_MaeIffRmse ==
    /\ response # <<>> => Paired(response[1].metrics)
    /\ \A i \in 1..Len(metrics_buffer) : Paired(metrics_buffer[i])
    /\ \A i \in 1..Len(window_results) : Paired(window_results[i].metrics)
    /\ op = "batch" => \A i \in 1..Len(results) : Paired(results[i].metrics)
    /\ op = "backtest" =>
          \A i \in 1..Len(results) :
              /\ Paired(results[i].aggregate)
              /\ \A w \in 1..Len(results[i].windows) : Paired(results[i].windows[w].metrics)
    /\ \A i \in 1..Len(leaderboard) :
          /\ Paired(leaderboard[i].metrics)
          /\ ~MaeOnly(leaderboard[i])
          /\ Score(leaderboard[i]) < MaeOffset \/ Score(leaderboard[i]) = Inf

C29_Witness ==
    /\ pc = "done"
    /\ Len(leaderboard) = 2
    /\ HasRmse(leaderboard[1])
    /\ leaderboard[1].metrics.mape = None
    /\ Metricless(leaderboard[2])

\* ---------------------------------------------------------------------- C30
StrictlyIncreasing(s) == \A i \in 1..(Len(s) - 1) : s[i] < s[i + 1]

\* C30: the timestamps of a forecast response are strictly increasing whenever
\* the input table has strictly increasing timestamps and the backend returns
\* strictly increasing timestamps later than the end of its training table,
\* also when the forecast has more rows than the holdout and when the series
\* has irregular gaps.
C30_TimestampsIncreasing ==
    (/\ response # <<>>
     /\ StrictlyIncreasing([i \in 1..Len(data) |-> data[i].ds])
     /\ StrictlyIncreasing(Timestamps(forecast_df))
     /\ \A i \in 1..Len(forecast_df.rows) : forecast_df.rows[i].ds > LastDs(train_df))
    => StrictlyIncreasing(response[1].timestamps)

====
